---- MODULE Spec2Model ----
(***************************************************************************)
(* Model of the request queue and the playback orchestrator of            *)
(* TwitchSpotifySRBot (src/src/services/queue_manager.py,                  *)
(* src/src/services/bot_orchestrator.py, src/src/services/twitch_service.py*)
(* src/src/models/song.py, src/src/models/config.py).                      *)
(*                                                                         *)
(* Every public method of QueueManager runs its body under self._lock and  *)
(* never suspends inside it (the only await is _sort_queue, which contains *)
(* no suspension point), so each method is one atomic action.  The         *)
(* coroutines of BotOrchestrator suspend at their backend calls: each      *)
(* stretch of code between two suspension points is one action.            *)
(*                                                                         *)
(* Spec         : the queue manager alone, under every order of its calls. *)
(* SpecOrch     : one orchestrator from start() to stop(): playback loop,  *)
(*                fallback, chat requests one at a time.                   *)
(* SpecRequests : chat request handlers that overlap, and the loop.        *)
(* SpecWindow   : the controls of the window on the orchestrator's queue.  *)
(* SpecStart    : start() and stop() called in every order.                *)
(* SpecLive     : the running loop under fair scheduling.                  *)
(* SpecForce    : the running loop and force_play_next from the window.    *)
(* SpecTimed    : the loop against the clock and a playing backend.        *)
(* SpecControls : the manual controls of the queue and what they return.   *)
(* SpecLoops    : the loop tasks of overlapping start() calls attempting   *)
(*                a fallback.                                              *)
(* SpecChat     : the chat thread blocked in the orchestrator's wrappers.  *)
(* SpecConstruct: the construction of an orchestrator from a configuration.*)
(* SpecGate     : the permission gate of the chat commands.                *)
(***************************************************************************)
EXTENDS Integers, Sequences, FiniteSets, Bags, TLC

VARIABLES
    queue,                 \* QueueManager._queue: list of QueueItem
    history,               \* QueueManager._history: URI -> timestamp of last pop
    user_cooldowns,        \* QueueManager._user_cooldowns: username -> timestamp
    smart_voting_enabled,  \* QueueManager.smart_voting_enabled
    requests_paused,       \* QueueManager.requests_paused
    blacklist,             \* QueueManager.blacklist (BlacklistConfig)
    rules,                 \* QueueManager.rules (RulesConfig), fixed at construction
    now,                   \* value returned by time.time(), in seconds
    locked,                \* QueueManager._lock.locked()
    last,                  \* what the last add_request / pop_next call returned
    running,               \* BotOrchestrator._running
    loop_pc,               \* where the task of _playback_loop is suspended
    stop_pc,               \* where the coroutine of stop() is suspended
    current_track,         \* BotOrchestrator._current_track (Optional[QueueItem])
    loop_item,             \* `item` of the _play_next_song call the loop is suspended in
    sleep_until,           \* when the asyncio.sleep the loop is in expires (seconds)
    track_ends,            \* when the track the backend is playing ends (seconds)
    autopilot_error_count, \* BotOrchestrator._autopilot_error_count
    fallback_playlist_id,  \* config.spotify.fallback_playlist_id (Optional[str])
    main_loop,             \* BotOrchestrator._main_loop is set
    inflight,              \* coroutines scheduled on the main loop and not finished
    obs,                   \* what the last step of the orchestrator did
    command_permissions,   \* config.command_permissions (CommandPermissions)
    callbacks,             \* the commands whose callback TwitchBotService was given
    chat,                  \* the chat thread: the callback it is blocked in, if any
    answered               \* how the chat thread dealt with the last command

\* the queue manager
qvars == <<queue, history, user_cooldowns, smart_voting_enabled,
           requests_paused, blacklist, rules, now, locked, last>>

\* the orchestrator
ovars == <<running, loop_pc, stop_pc, current_track, autopilot_error_count,
           fallback_playlist_id, sleep_until, track_ends, loop_item, main_loop, inflight, obs>>

\* the chat service
cvars == <<command_permissions, callbacks, chat, answered>>

vars == <<qvars, ovars, cvars>>

----------------------------------------------------------------------------
(* Bounds of the model *)

\* number of clock advances explored
MaxTicks == 1
\* seconds the clock advances in one step
TickSeconds == 60

----------------------------------------------------------------------------
(* Strings are tuples of characters, so that str.lower() and the substring *)
(* test `a in b` are computed, not assumed.                                *)

LowerChar(c) ==
    CASE c = "A" -> "a"
      [] c = "B" -> "b"
      [] c = "C" -> "c"
      [] c = "D" -> "d"
      [] OTHER -> c

Lower(s) == [i \in 1..Len(s) |-> LowerChar(s[i])]

\* Python `frag in s` for two str values
IsSubstring(frag, s) ==
    \E k \in 0..(Len(s) - Len(frag)) :
        \A i \in 1..Len(frag) : s[k + i] = frag[i]

----------------------------------------------------------------------------
(* Song (models/song.py) : the tracks the backend search can return        *)

Song(name, uri, duration_ms, artist) ==
    [name |-> name, uri |-> uri, duration_ms |-> duration_ms, artist |-> artist]

Songs ==
    { Song(<<"A", "b">>, "u1", 60000, <<"c">>),
      Song(<<"b", "A">>, "u2", 30000, <<"D">>),
      Song(<<"c">>,      "u3", 60001, <<"a">>) }

URIs == { s.uri : s \in Songs }

Users == { "alice", "bob" }

\* BlacklistConfig values the settings window can install
BlacklistConfigs ==
    { [songs |-> <<>>, artists |-> <<>>],
      [songs |-> << <<"a", "B">> >>, artists |-> << <<"d">> >>] }

\* RulesConfig (models/config.py: ge=1 for the first three fields, ge=0 for the cooldowns)
RulesConfig(max_queue, max_user, max_length, song_cooldown, user_cooldown) ==
    [ max_queue_size |-> max_queue,
      max_user_requests |-> max_user,
      max_song_length_minutes |-> max_length,
      song_cooldown_minutes |-> song_cooldown,
      user_request_cooldown_minutes |-> user_cooldown ]

\* the configurations a manager is constructed with
RulesConfigs ==
    { RulesConfig(2, 1, 1, 1, 0),
      RulesConfig(1, 2, 1, 0, 1),
      RulesConfig(3, 2, 1, 1, 1) }

\* QueueItem (models/song.py)
QueueItem(song, votes, requesters, is_manual) ==
    [song |-> song, votes |-> votes, requesters |-> requesters, is_manual |-> is_manual]

\* Python `x in list`
InList(x, l) == \E i \in 1..Len(l) : l[i] = x

\* `last` observes the two calls whose return value the queue's callers act on,
\* add_request and pop_next: what was returned and whether the call wrote the
\* queue; any other step resets it to NoCall
Call(op, result, wrote, item) ==
    [op |-> op, result |-> result, wrote |-> wrote, item |-> item]

\* a returned Optional[QueueItem]: <<>> is None, <<item>> is the item
NoItem == <<>>

NoCall == Call("-", "-", FALSE, NoItem)

----------------------------------------------------------------------------
(* Queries *)

\* QueueManager.get_user_request_count
get_user_request_count(q, username) ==
    Cardinality({ i \in 1..Len(q) : InList(username, q[i].requesters) })

\* a cooldown check that takes its window from the song-cooldown setting
check_user_cooldown_song_window(username) ==
    IF rules.user_request_cooldown_minutes = 0 THEN FALSE
    ELSE IF username \notin DOMAIN user_cooldowns THEN FALSE
    ELSE (now - user_cooldowns[username]) < rules.song_cooldown_minutes * 60

\* QueueManager.check_user_cooldown
check_user_cooldown(username) ==
    IF rules.user_request_cooldown_minutes = 0 THEN FALSE
    ELSE IF username \notin DOMAIN user_cooldowns THEN FALSE
    ELSE (now - user_cooldowns[username]) < rules.user_request_cooldown_minutes * 60

\* QueueManager.check_blacklist (the boolean of the returned tuple)
check_blacklist(song) ==
    \/ \E i \in 1..Len(blacklist.songs) :
           IsSubstring(Lower(blacklist.songs[i]), Lower(song.name))
    \/ \E i \in 1..Len(blacklist.artists) :
           IsSubstring(Lower(blacklist.artists[i]), Lower(song.artist))

\* a lookup that never finds the URI
find_in_queue_none(q, uri) == 0

\* QueueManager._find_in_queue: index (1-based) of the first item with this URI, 0 if none
find_in_queue(q, uri) ==
    IF \E i \in 1..Len(q) : q[i].song.uri = uri
    THEN CHOOSE i \in 1..Len(q) :
            /\ q[i].song.uri = uri
            /\ \A j \in 1..(i - 1) : q[j].song.uri # uri
    ELSE 0

\* the window test with <= in place of <
is_on_cooldown_inclusive(uri) ==
    IF uri \notin DOMAIN history THEN FALSE
    ELSE (now - history[uri]) <= rules.song_cooldown_minutes * 60

\* QueueManager._is_on_cooldown
is_on_cooldown(uri) ==
    IF uri \notin DOMAIN history THEN FALSE
    ELSE (now - history[uri]) < rules.song_cooldown_minutes * 60

\* dict[key] = value
DictSet(d, key, value) ==
    [k \in (DOMAIN d) \cup {key} |-> IF k = key THEN value ELSE d[k]]

----------------------------------------------------------------------------
(* QueueManager._sort_queue *)

\* list.sort(key=votes, reverse=True): stable, descending by votes
\* an insertion that puts the item in front of the entries with as many votes
RECURSIVE InsertBeforeEqual(_, _)
InsertBeforeEqual(sorted, item) ==
    IF sorted = <<>> THEN <<item>>
    ELSE IF Head(sorted).votes > item.votes
         THEN <<Head(sorted)>> \o InsertBeforeEqual(Tail(sorted), item)
         ELSE <<item>> \o sorted

RECURSIVE InsertByVotes(_, _)
InsertByVotes(sorted, item) ==
    IF sorted = <<>> THEN <<item>>
    ELSE IF Head(sorted).votes >= item.votes
         THEN <<Head(sorted)>> \o InsertByVotes(Tail(sorted), item)
         ELSE <<item>> \o sorted

RECURSIVE SortByVotes(_)
SortByVotes(items) ==
    IF items = <<>> THEN <<>>
    ELSE InsertByVotes(SortByVotes(SubSeq(items, 1, Len(items) - 1)), items[Len(items)])

IsManual(item) == item.is_manual
IsAuto(item) == ~item.is_manual

sort_queue(q, smart) ==
    LET manual_items == SelectSeq(q, IsManual)
        auto_items   == SelectSeq(q, IsAuto)
    IN  manual_items \o (IF smart THEN SortByVotes(auto_items) ELSE auto_items)

\* list.pop(index), 0-based
ListPop(l, index) == SubSeq(l, 1, index) \o SubSeq(l, index + 2, Len(l))

\* list.insert(index, x), 0-based, 0 <= index <= len
ListInsert(l, index, x) == SubSeq(l, 1, index) \o <<x>> \o SubSeq(l, index + 1, Len(l))

----------------------------------------------------------------------------
(* Construction *)

\* `obs` observes the last step of the orchestrator: which step it was, what it
\* decided or answered, the backend calls it issued, whether a backend call it
\* waited for failed, and whether it invoked on_update
\* HistoryManager.add_entry: the HistoryEntry it appends (without its timestamp)
HistoryEntry(song, requester, was_skipped) ==
    [song_name |-> song.name, artist |-> song.artist, uri |-> song.uri,
     duration_ms |-> song.duration_ms, requester |-> requester, was_skipped |-> was_skipped]

\* a step that also appended `recorded` to the play history
ObsRecorded(op, result, calls, failed, notified, recorded) ==
    [op |-> op, result |-> result, calls |-> calls, failed |-> failed,
     notified |-> notified, recorded |-> recorded]

Obs(op, result, calls, failed, notified) ==
    ObsRecorded(op, result, calls, failed, notified, <<>>)

NoStep == Obs("-", "-", {}, FALSE, FALSE)

\* CommandPermission (models/config.py)
CommandPermission == { "everyone", "followers", "subscribers", "moderators", "broadcaster" }

\* the commands event_message dispatches to a callback of the orchestrator
Commands ==
    { "sr", "skip", "currentsong", "clearqueue", "addblacklist", "removeblacklist",
      "pauserequests", "resumerequests" }

\* CommandPermissions(): the defaults of the model's fields
DefaultPermissions ==
    [ c \in Commands |-> IF c \in {"sr", "currentsong"} THEN "everyone" ELSE "moderators" ]

\* the chat thread is not inside a callback
ChatIdle ==
    [pc |-> "idle", command |-> "-", badges |-> {}, username |-> "-", entry |-> "", waited |-> 0]

\* the player of the backend is left out: its state is any PlaybackState
NoPlayer == track_ends = 0

\* BotOrchestrator.__init__: nothing runs yet
BotOrchestratorInit ==
    /\ running = FALSE
    /\ loop_pc = "none"
    /\ stop_pc = "idle"
    /\ current_track = NoItem
    /\ loop_item = NoItem
    /\ sleep_until = 0
    /\ autopilot_error_count = 0
    /\ main_loop = FALSE
    /\ inflight = EmptyBag
    /\ obs = NoStep

\* no chat service is attached
NoChatService ==
    /\ command_permissions = DefaultPermissions
    /\ callbacks = {}
    /\ chat = ChatIdle
    /\ answered = <<>>

\* QueueManager.__init__, for a manager that is used on its own
Init ==
    /\ queue = <<>>
    /\ history = <<>>
    /\ user_cooldowns = <<>>
    /\ smart_voting_enabled \in BOOLEAN
    /\ requests_paused \in BOOLEAN
    /\ blacklist \in BlacklistConfigs
    /\ rules \in RulesConfigs
    /\ locked = FALSE
    /\ now = 0
    /\ last = NoCall
    /\ BotOrchestratorInit
    /\ NoPlayer
    /\ fallback_playlist_id = <<>>
    /\ NoChatService

----------------------------------------------------------------------------
(* QueueManager.add_request *)

\* an early return that has already stamped the user's cooldown
Reject_stamped(song, username, result) ==
    /\ last' = Call("add_request", result, FALSE, NoItem)
    /\ user_cooldowns' = DictSet(user_cooldowns, username, now)
    /\ UNCHANGED <<queue, history, smart_voting_enabled,
                   requests_paused, blacklist, rules, now, locked>>

\* an early `return RequestResult.X` of add_request: nothing is written
Reject(song, username, result) ==
    /\ last' = Call("add_request", result, FALSE, NoItem)
    /\ UNCHANGED <<queue, history, user_cooldowns, smart_voting_enabled,
                   requests_paused, blacklist, rules, now, locked>>

\* a vote that is counted but whose voter is not recorded
AddVote_anonymous(song, username, existing) ==
    LET voted == [queue EXCEPT ![existing].votes = @ + 1]
    IN  /\ queue' = sort_queue(voted, smart_voting_enabled)
        /\ user_cooldowns' = DictSet(user_cooldowns, username, now)
        /\ last' = Call("add_request", "VOTED", TRUE, NoItem)
        /\ UNCHANGED <<history, smart_voting_enabled, requests_paused,
                       blacklist, rules, now, locked>>

\* a vote whose voter is recorded but which is not counted
AddVote_uncounted(song, username, existing) ==
    LET voted == [queue EXCEPT ![existing].requesters = Append(@, username)]
    IN  /\ queue' = sort_queue(voted, smart_voting_enabled)
        /\ user_cooldowns' = DictSet(user_cooldowns, username, now)
        /\ last' = Call("add_request", "VOTED", TRUE, NoItem)
        /\ UNCHANGED <<history, smart_voting_enabled, requests_paused,
                       blacklist, rules, now, locked>>

\* the smart-voting branch for a user who has not voted yet
AddVote(song, username, existing) ==
    LET voted == [queue EXCEPT ![existing].votes = @ + 1,
                               ![existing].requesters = Append(@, username)]
    IN  /\ queue' = sort_queue(voted, smart_voting_enabled)
        /\ user_cooldowns' = DictSet(user_cooldowns, username, now)
        /\ last' = Call("add_request", "VOTED", TRUE, NoItem)
        /\ UNCHANGED <<history, smart_voting_enabled, requests_paused,
                       blacklist, rules, now, locked>>

\* the final branch: a new QueueItem is appended
Admit(song, username) ==
    LET queue_item == QueueItem(song, 1, <<username>>, FALSE)
    IN  /\ queue' = sort_queue(Append(queue, queue_item), smart_voting_enabled)
        /\ user_cooldowns' = DictSet(user_cooldowns, username, now)
        /\ last' = Call("add_request", "SUCCESS", TRUE, NoItem)
        /\ UNCHANGED <<history, smart_voting_enabled, requests_paused,
                       blacklist, rules, now, locked>>

\* `if len(self._queue) >= self.rules.max_queue_size`
queue_full_off_by_one == Len(queue) > rules.max_queue_size
queue_full == Len(queue) >= rules.max_queue_size

\* `if self.get_user_request_count(username) >= self.rules.max_user_requests`
user_limit_off_by_one(username) ==
    get_user_request_count(queue, username) > rules.max_user_requests
user_limit_reached(username) ==
    get_user_request_count(queue, username) >= rules.max_user_requests

\* `if song.duration_ms > max_duration_ms`
too_long(song) ==
    LET max_duration_ms == rules.max_song_length_minutes * 60 * 1000
    IN  song.duration_ms > max_duration_ms

\* `username not in existing.requesters`, negated
never_voted(item, username) == FALSE
already_voted(item, username) == InList(username, item.requesters)

\* the same checks with the user-limit test moved ahead of the queue-size test
add_request_limit_first(song, username) ==
    LET existing == find_in_queue(queue, song.uri)
    IN
    IF requests_paused
    THEN Reject(song, username, "REQUESTS_PAUSED")
    ELSE IF check_user_cooldown(username)
    THEN Reject(song, username, "USER_COOLDOWN")
    ELSE IF check_blacklist(song)
    THEN Reject(song, username, "BLACKLISTED")
    ELSE IF user_limit_reached(username)
    THEN Reject(song, username, "USER_LIMIT")
    ELSE IF queue_full
    THEN Reject(song, username, "QUEUE_FULL")
    ELSE IF too_long(song)
    THEN Reject(song, username, "TOO_LONG")
    ELSE IF existing # 0
    THEN IF ~smart_voting_enabled
         THEN Reject(song, username, "DUPLICATE")
         ELSE IF ~already_voted(queue[existing], username)
              THEN AddVote(song, username, existing)
              ELSE Reject(song, username, "VOTED")
    ELSE IF is_on_cooldown(song.uri)
    THEN Reject(song, username, "ON_COOLDOWN")
    ELSE Admit(song, username)

add_request(song, username) ==
    ~locked /\
    LET existing == find_in_queue(queue, song.uri)
    IN
    IF requests_paused
    THEN Reject(song, username, "REQUESTS_PAUSED")
    ELSE IF check_user_cooldown(username)
    THEN Reject(song, username, "USER_COOLDOWN")
    ELSE IF check_blacklist(song)
    THEN Reject(song, username, "BLACKLISTED")
    ELSE IF queue_full
    THEN Reject(song, username, "QUEUE_FULL")
    ELSE IF user_limit_reached(username)
    THEN Reject(song, username, "USER_LIMIT")
    ELSE IF too_long(song)
    THEN Reject(song, username, "TOO_LONG")
    ELSE IF existing # 0
    THEN IF ~smart_voting_enabled
         THEN Reject(song, username, "DUPLICATE")
         ELSE IF ~already_voted(queue[existing], username)
              THEN AddVote(song, username, existing)
              ELSE Reject(song, username, "VOTED")
    ELSE IF is_on_cooldown(song.uri)
    THEN Reject(song, username, "ON_COOLDOWN")
    ELSE Admit(song, username)

----------------------------------------------------------------------------
(* The other queue operations *)

\* indices a caller may pass: one below and one above the valid range included
Indices == -1..Len(queue)

\* index pairs a caller may pass to move_item: every valid pair, and pairs with
\* one index just outside the range on either side
MoveIndices ==
    LET valid == 0..(Len(queue) - 1)
    IN  (valid \X valid) \cup { <<-1, 0>>, <<0, -1>>, <<Len(queue), 0>>, <<0, Len(queue)>> }

\* a remove_item that tests only the upper end of the range: list.pop(-1) takes
\* the last element
remove_item_negative(index) ==
    /\ IF index < Len(queue) /\ queue # <<>>
       THEN /\ queue' = ListPop(queue, IF index < 0 THEN Len(queue) + index ELSE index)
            /\ last' = NoCall
       ELSE /\ queue' = queue
            /\ last' = NoCall
    /\ UNCHANGED <<history, user_cooldowns, smart_voting_enabled,
                   requests_paused, blacklist, rules, now, locked>>

\* QueueManager.remove_item
remove_item(index) ==
    /\ ~locked
    /\ IF 0 <= index /\ index < Len(queue)
       THEN /\ queue' = ListPop(queue, index)
            /\ last' = NoCall
       ELSE /\ queue' = queue
            /\ last' = NoCall
    /\ UNCHANGED <<history, user_cooldowns, smart_voting_enabled,
                   requests_paused, blacklist, rules, now, locked>>

clear_queue ==
    /\ ~locked
    /\ queue' = <<>>
    /\ last' = NoCall
    /\ UNCHANGED <<history, user_cooldowns, smart_voting_enabled,
                   requests_paused, blacklist, rules, now, locked>>

\* list.pop() without an index takes the last element
pop_next_last ==
    IF queue = <<>>
    THEN /\ last' = Call("pop_next", "None", FALSE, NoItem)
         /\ UNCHANGED <<queue, history, user_cooldowns, smart_voting_enabled,
                        requests_paused, blacklist, rules, now, locked>>
    ELSE LET item == queue[Len(queue)]
         IN  /\ queue' = ListPop(queue, Len(queue) - 1)
             /\ history' = DictSet(history, item.song.uri, now)
             /\ last' = Call("pop_next", "item", TRUE, <<item>>)
             /\ UNCHANGED <<user_cooldowns, smart_voting_enabled,
                            requests_paused, blacklist, rules, now, locked>>

\* a pop that returns the first entry and leaves it in the queue
pop_next_peek ==
    ~locked /\
    IF queue = <<>>
    THEN /\ last' = Call("pop_next", "None", FALSE, NoItem)
         /\ UNCHANGED <<queue, history, user_cooldowns, smart_voting_enabled,
                        requests_paused, blacklist, rules, now, locked>>
    ELSE LET item == queue[1]
         IN  /\ history' = DictSet(history, item.song.uri, now)
             /\ last' = Call("pop_next", "item", TRUE, <<item>>)
             /\ UNCHANGED <<queue, user_cooldowns, smart_voting_enabled,
                            requests_paused, blacklist, rules, now, locked>>

\* a pop that returns its item with the lock still held
pop_next_holding ==
    ~locked /\
    IF queue = <<>>
    THEN /\ last' = Call("pop_next", "None", FALSE, NoItem)
         /\ UNCHANGED <<queue, history, user_cooldowns, smart_voting_enabled,
                        requests_paused, blacklist, rules, now, locked>>
    ELSE LET item == queue[1]
         IN  /\ queue' = ListPop(queue, 0)
             /\ history' = DictSet(history, item.song.uri, now)
             /\ last' = Call("pop_next", "item", TRUE, <<item>>)
             /\ locked' = TRUE
             /\ UNCHANGED <<user_cooldowns, smart_voting_enabled,
                            requests_paused, blacklist, rules, now>>

pop_next ==
    ~locked /\
    IF queue = <<>>
    THEN /\ last' = Call("pop_next", "None", FALSE, NoItem)
         /\ UNCHANGED <<queue, history, user_cooldowns, smart_voting_enabled,
                        requests_paused, blacklist, rules, now, locked>>
    ELSE LET item == queue[1]
         IN  /\ queue' = ListPop(queue, 0)
             /\ history' = DictSet(history, item.song.uri, now)
             /\ last' = Call("pop_next", "item", TRUE, <<item>>)
             /\ UNCHANGED <<user_cooldowns, smart_voting_enabled,
                            requests_paused, blacklist, rules, now, locked>>

move_item(from_index, to_index) ==
    /\ ~locked
    /\ IF ~(/\ 0 <= from_index /\ from_index < Len(queue)
            /\ 0 <= to_index /\ to_index < Len(queue))
       THEN /\ queue' = queue
            /\ last' = NoCall
       ELSE LET item == [queue[from_index + 1] EXCEPT !.is_manual = TRUE]
            IN  /\ queue' = ListInsert(ListPop(queue, from_index), to_index, item)
                /\ last' = NoCall
    /\ UNCHANGED <<history, user_cooldowns, smart_voting_enabled,
                   requests_paused, blacklist, rules, now, locked>>

pin_item(index) ==
    /\ ~locked
    /\ IF 0 <= index /\ index < Len(queue)
       THEN /\ queue' = [queue EXCEPT ![index + 1].is_manual = TRUE]
            /\ last' = NoCall
       ELSE /\ queue' = queue
            /\ last' = NoCall
    /\ UNCHANGED <<history, user_cooldowns, smart_voting_enabled,
                   requests_paused, blacklist, rules, now, locked>>

unpin_item(index) ==
    /\ ~locked
    /\ IF 0 <= index /\ index < Len(queue)
       THEN /\ queue' = sort_queue([queue EXCEPT ![index + 1].is_manual = FALSE],
                                   smart_voting_enabled)
            /\ last' = NoCall
       ELSE /\ queue' = queue
            /\ last' = NoCall
    /\ UNCHANGED <<history, user_cooldowns, smart_voting_enabled,
                   requests_paused, blacklist, rules, now, locked>>

\* a toggle that switches the flag and leaves the queue as it is
toggle_smart_voting_no_sort(enabled) ==
    /\ smart_voting_enabled' = enabled
    /\ queue' = queue
    /\ last' = NoCall
    /\ UNCHANGED <<history, user_cooldowns, requests_paused, blacklist, rules, now, locked>>

toggle_smart_voting(enabled) ==
    /\ ~locked
    /\ smart_voting_enabled' = enabled
    /\ queue' = sort_queue(queue, enabled)
    /\ last' = NoCall
    /\ UNCHANGED <<history, user_cooldowns, requests_paused, blacklist, rules, now, locked>>

set_requests_paused(paused) ==
    /\ requests_paused' = paused
    /\ last' = NoCall
    /\ UNCHANGED <<queue, history, user_cooldowns, smart_voting_enabled,
                   blacklist, rules, now, locked>>

update_blacklist(new_blacklist) ==
    /\ blacklist' = new_blacklist
    /\ last' = NoCall
    /\ UNCHANGED <<queue, history, user_cooldowns, smart_voting_enabled,
                   requests_paused, rules, now, locked>>

\* time.time() advances between calls
Tick ==
    /\ now < MaxTicks * TickSeconds
    /\ now' = now + TickSeconds
    /\ last' = NoCall
    /\ UNCHANGED <<queue, history, user_cooldowns, smart_voting_enabled,
                   requests_paused, blacklist, rules, locked>>

\* a call of the manager by a caller other than the orchestrator
Alone == UNCHANGED <<ovars, cvars>>

Next ==
    \/ (\E song \in Songs, username \in Users : add_request(song, username)) /\ Alone
    \/ (\E index \in Indices : remove_item(index)) /\ Alone
    \/ clear_queue /\ Alone
    \/ pop_next /\ Alone
    \/ (\E indices \in MoveIndices : move_item(indices[1], indices[2])) /\ Alone
    \/ (\E index \in Indices : pin_item(index)) /\ Alone
    \/ (\E index \in Indices : unpin_item(index)) /\ Alone
    \/ (\E enabled \in BOOLEAN : toggle_smart_voting(enabled)) /\ Alone
    \/ (\E paused \in BOOLEAN : set_requests_paused(paused)) /\ Alone
    \/ (\E new_blacklist \in BlacklistConfigs : update_blacklist(new_blacklist)) /\ Alone
    \/ Tick /\ Alone

Spec == Init /\ [][Next]_vars

RequestResult ==
    { "SUCCESS", "QUEUE_FULL", "USER_LIMIT", "TOO_LONG", "ON_COOLDOWN", "USER_COOLDOWN",
      "BLACKLISTED", "NOT_FOUND", "VOTED", "DUPLICATE", "REQUESTS_PAUSED" }

TypeOK ==
    /\ \A i \in 1..Len(queue) :
          /\ queue[i].song \in Songs
          /\ queue[i].votes \in Nat
          /\ queue[i].is_manual \in BOOLEAN
          /\ \A k \in 1..Len(queue[i].requesters) : queue[i].requesters[k] \in Users
    /\ DOMAIN history \subseteq URIs
    /\ DOMAIN user_cooldowns \subseteq Users
    /\ smart_voting_enabled \in BOOLEAN
    /\ requests_paused \in BOOLEAN
    /\ blacklist \in BlacklistConfigs
    /\ rules \in RulesConfigs
    /\ locked = FALSE
    /\ now \in 0..(MaxTicks * TickSeconds)
    /\ last.op \in {"-", "add_request", "pop_next"}
    /\ last.op = "add_request" => last.result \in RequestResult
    /\ last.wrote \in BOOLEAN

----------------------------------------------------------------------------
(* BotOrchestrator (services/bot_orchestrator.py)                          *)
(*                                                                         *)
(* The orchestrator's coroutines run on one event loop.  A coroutine runs  *)
(* until it awaits a backend call or a sleep; the lock of the queue        *)
(* manager is never contended, so a call of the manager does not suspend.  *)
(* A backend call is issued by the step that reaches its await and its     *)
(* outcome is an input of the step that resumes after it.                  *)

\* number of _handle_song_request coroutines that may be suspended at once
MaxHandlers == 2

\* `if self._autopilot_error_count >= 3`
FallbackThreshold == 3

\* `if remaining_ms < 10000`
EndingSoonMs == 10000

\* the rules the orchestrator's manager is constructed with
OrchRules == RulesConfig(2, 2, 1, 0, 0)

\* PlaybackState (services/spotify_service.py); an Optional value is <<>> or <<v>>
PlaybackState(is_playing, track, progress_ms) ==
    [is_playing |-> is_playing, current_track |-> track, progress_ms |-> progress_ms]

\* what get_playback_state can return: None (<<>>, the call failed) or a state:
\* nothing playing; playing with 10000 ms left; playing with 9999 ms left;
\* playing an item that is no track; playing with no progress reported;
\* paused inside the last seconds of a track
PlaybackStates ==
    { <<>>,
      << PlaybackState(FALSE, <<>>, <<0>>) >>,
      << PlaybackState(TRUE, <<30000>>, <<20000>>) >>,
      << PlaybackState(TRUE, <<30000>>, <<20001>>) >>,
      << PlaybackState(TRUE, <<>>, <<0>>) >>,
      << PlaybackState(TRUE, <<30000>>, <<>>) >>,
      << PlaybackState(FALSE, <<30000>>, <<20001>>) >> }

\* the track get_random_fallback_track returns, wrapped by _play_fallback
AutopilotItem == QueueItem(Song(<<"f">>, "u9", 30000, <<"g">>), 0, <<"autopilot">>, FALSE)

\* what search_track can return for a query: None, or the track the query names
SearchResults(query) == { <<>> } \cup { <<s>> : s \in { t \in Songs : t.uri = query } }

\* the chat reply _handle_song_request builds for an outcome of add_request
RequestReply(result, listed) ==
    CASE result = "SUCCESS" -> IF listed THEN "chat.added_pos" ELSE "chat.added_simple"
      [] result = "VOTED" -> "chat.voted"
      [] result = "QUEUE_FULL" -> "chat.queue_full"
      [] result = "USER_LIMIT" -> "chat.limit_reached"
      [] result = "TOO_LONG" -> "chat.err_too_long"
      [] result = "ON_COOLDOWN" -> "chat.err_cooldown"
      [] OTHER -> "chat.err_not_found"

\* the step does not call the queue manager
NoQueueCall ==
    /\ last' = NoCall
    /\ UNCHANGED <<queue, history, user_cooldowns, smart_voting_enabled,
                   requests_paused, blacklist, rules, now, locked>>

\* stop() has cancelled the task of the loop and the CancelledError is not
\* delivered yet: the next time the task runs it is thrown at its await
Cancelling == stop_pc = "await_task" /\ loop_pc \notin {"none", "done"}

\* `while self._running`, evaluated when a tick is over
LoopTop == IF running THEN "sleep" ELSE "done"

\* the handler of the loop for an exception that leaves the tick: break
loop_except_break == "done"

\* `except Exception as e: ... await asyncio.sleep(5)`, then the next iteration
loop_except == "error_sleep"

\* the arguments of the asyncio.sleep calls of _playback_loop and _play_fallback
TickInterval == 4

EnqueuePause == 8

ErrorPause == 5

FallbackPause == 5

FallbackBackoff == 10

\* how long the loop sleeps where it is suspended
SleepSeconds(pc) ==
    CASE pc = "sleep" -> TickInterval
      [] pc = "enqueue_sleep" -> EnqueuePause
      [] pc = "error_sleep" -> ErrorPause
      [] pc = "fallback_sleep" -> FallbackPause
      [] pc = "fallback_backoff" -> FallbackBackoff
      [] OTHER -> 0

\* when the sleep the loop enters at `pc` expires, at the earliest
sleep_expiry(pc) == IF SleepSeconds(pc) = 0 THEN 0 ELSE now + SleepSeconds(pc)

\* BotOrchestrator.start
start(connected) ==
    /\ ~running
    /\ loop_pc = "none"
    /\ main_loop' = TRUE
    /\ IF connected
       THEN /\ running' = TRUE
            /\ loop_pc' = "sleep"
            /\ obs' = Obs("start", "started", {}, FALSE, TRUE)
       ELSE /\ running' = FALSE
            /\ loop_pc' = loop_pc
            /\ obs' = Obs("start", "raised", {}, TRUE, FALSE)
    /\ NoQueueCall
    /\ sleep_until' = sleep_expiry(loop_pc')
    /\ UNCHANGED <<stop_pc, current_track, autopilot_error_count,
                   fallback_playlist_id, track_ends, loop_item, inflight, cvars>>

\* _playback_loop: asyncio.sleep(4) is over, get_playback_state is called
playback_loop_wake ==
    /\ loop_pc = "sleep"
    /\ ~Cancelling
    /\ loop_pc' = "state"
    /\ obs' = Obs("wake", "-", {"get_playback_state"}, FALSE, FALSE)
    /\ NoQueueCall
    /\ sleep_until' = sleep_expiry(loop_pc')
    /\ UNCHANGED <<running, stop_pc, current_track, autopilot_error_count,
                   fallback_playlist_id, track_ends, loop_item, main_loop, inflight, cvars>>

\* a tick that does nothing: `continue`, or the end of the loop body
tick_no_action(decision, failed) ==
    /\ loop_pc' = LoopTop
    /\ obs' = Obs("tick", decision, {}, failed, FALSE)
    /\ NoQueueCall
    /\ UNCHANGED <<current_track, loop_item, autopilot_error_count>>

\* a fallback that gives up only above the threshold
play_fallback_above_threshold ==
    IF fallback_playlist_id = <<>>
    THEN tick_no_action("fallback", FALSE)
    ELSE IF autopilot_error_count > FallbackThreshold
    THEN tick_no_action("fallback", FALSE)
    ELSE /\ loop_pc' = "fallback_fetch"
         /\ obs' = Obs("tick", "fallback", {"get_random_fallback_track"}, FALSE, FALSE)
         /\ NoQueueCall
         /\ UNCHANGED <<current_track, loop_item, autopilot_error_count>>

\* what _play_fallback logs before its first await or early return
play_fallback_logs ==
    IF fallback_playlist_id = <<>>
    THEN [level |-> "debug", msg |-> "No fallback playlist configured"]
    ELSE IF autopilot_error_count >= FallbackThreshold
    THEN [level |-> "warning", msg |-> "Autopilot disabled due to errors"]
    ELSE [level |-> "info", msg |-> "Attempting to play fallback track"]

\* _play_fallback up to its first await
play_fallback ==
    IF fallback_playlist_id = <<>>
    THEN tick_no_action("fallback", FALSE)
    ELSE IF autopilot_error_count >= FallbackThreshold
    THEN tick_no_action("fallback", FALSE)
    ELSE /\ loop_pc' = "fallback_fetch"
         /\ obs' = Obs("tick", "fallback", {"get_random_fallback_track"}, FALSE, FALSE)
         /\ NoQueueCall
         /\ UNCHANGED <<current_track, loop_item, autopilot_error_count>>

\* _play_next_song up to its await; the tick has just seen a non-empty queue
play_next_song(force_start) ==
    /\ pop_next
    /\ current_track' = <<queue[1]>>
    /\ loop_item' = <<queue[1]>>
    /\ loop_pc' = IF force_start THEN "start" ELSE "enqueue"
    /\ obs' = Obs("tick", IF force_start THEN "force_start" ELSE "soft_enqueue",
                  {IF force_start THEN "start_playback" ELSE "add_to_queue"}, FALSE, TRUE)
    /\ UNCHANGED autopilot_error_count

\* a track with exactly the threshold left counts as ending
ending_soon_inclusive(st) == st.current_track[1] - st.progress_ms[1] <= EndingSoonMs

\* `remaining_ms = duration_ms - progress_ms`, `if remaining_ms < 10000`
ending_soon(st) == st.current_track[1] - st.progress_ms[1] < EndingSoonMs

\* _playback_loop: get_playback_state has returned `state`; the body of the tick
playback_loop_tick(state) ==
    /\ loop_pc = "state"
    /\ ~Cancelling
    /\ IF state = <<>>
       THEN tick_no_action("none", TRUE)
       ELSE LET st == state[1]
            IN  IF queue = <<>>
                THEN IF ~st.is_playing
                     THEN play_fallback
                     ELSE tick_no_action("none", FALSE)
                ELSE IF ~st.is_playing
                THEN play_next_song(TRUE)
                ELSE IF st.current_track # <<>>
                THEN IF st.progress_ms = <<>>
                     THEN /\ loop_pc' = loop_except
                          /\ obs' = Obs("tick", "raised", {}, TRUE, FALSE)
                          /\ NoQueueCall
                          /\ UNCHANGED <<current_track, loop_item, autopilot_error_count>>
                     ELSE IF ending_soon(st)
                          THEN play_next_song(FALSE)
                          ELSE tick_no_action("none", FALSE)
                ELSE tick_no_action("none", FALSE)
    /\ sleep_until' = sleep_expiry(loop_pc')
    /\ UNCHANGED <<running, stop_pc, fallback_playlist_id, track_ends, main_loop, inflight, cvars>>

\* OBSOverlayServer.update_song: its parameters, and those without a default
update_song_parameters == { "name", "artist", "cover_url", "requester" }

update_song_required == { "name", "artist" }

\* the keywords _play_next_song and _play_fallback pass to update_song
update_song_keywords == { "title", "artist", "requester", "cover_url" }

\* Python binds the keywords of a call to the parameters: TypeError on a keyword
\* that is no parameter and on a parameter without default that gets no value
update_song_raises ==
    \/ ~(update_song_keywords \subseteq update_song_parameters)
    \/ ~(update_song_required \subseteq update_song_keywords)

\* `item.requesters[0] if item.requesters else "Unknown"`
first_requester(item) == IF item.requesters # <<>> THEN item.requesters[1] ELSE "Unknown"

\* a _play_next_song that adds the history entry before start_playback
played_entry_before_start(item, force_start, ok) ==
    IF force_start THEN <<HistoryEntry(item.song, first_requester(item), FALSE)>> ELSE <<>>

\* _play_next_song: what it appends to the play history; add_entry follows
\* start_playback in the force-start branch, the other branch has no add_entry
played_entry(item, force_start, ok) ==
    IF force_start /\ ok
    THEN <<HistoryEntry(item.song, first_requester(item), FALSE)>>
    ELSE <<>>

\* a loop that goes on with its next iteration after a soft enqueue
after_soft_enqueue_no_pause == LoopTop

\* _playback_loop after `_play_next_song(force_start=False)`: asyncio.sleep(8)
after_soft_enqueue == "enqueue_sleep"

\* _play_next_song after its await: start_playback / add_to_queue returned or
\* raised; the TypeError of update_song ends in the same `except Exception`
play_next_song_done(ok) ==
    /\ loop_pc \in {"start", "enqueue"}
    /\ ~Cancelling
    /\ loop_pc' = IF loop_pc = "start" THEN LoopTop ELSE after_soft_enqueue
    /\ loop_item' = NoItem
    /\ obs' = ObsRecorded(IF loop_pc = "start" THEN "start_playback" ELSE "add_to_queue",
                          "-", {}, ~ok, FALSE,
                          played_entry(loop_item[1], loop_pc = "start", ok))
    /\ NoQueueCall
    /\ sleep_until' = sleep_expiry(loop_pc')
    /\ UNCHANGED <<running, stop_pc, current_track, autopilot_error_count,
                   fallback_playlist_id, track_ends, main_loop, inflight, cvars>>

\* _play_fallback after get_random_fallback_track: a track, or None
play_fallback_fetched(found) ==
    /\ loop_pc = "fallback_fetch"
    /\ ~Cancelling
    /\ IF found
       THEN /\ loop_pc' = "fallback_start"
            /\ obs' = Obs("get_random_fallback_track", "-", {"start_playback"}, FALSE, FALSE)
       ELSE /\ loop_pc' = LoopTop
            /\ obs' = Obs("get_random_fallback_track", "-", {}, TRUE, FALSE)
    /\ NoQueueCall
    /\ sleep_until' = sleep_expiry(loop_pc')
    /\ UNCHANGED <<running, stop_pc, current_track, autopilot_error_count,
                   fallback_playlist_id, track_ends, loop_item, main_loop, inflight, cvars>>

\* _play_fallback after start_playback. It raised: `except Exception` counts
\* the failure and backs off. It returned: _current_track and the history entry
\* are written, then update_song is called; when that call raises, the same
\* `except Exception` is entered and the reset of the counter is not reached
play_fallback_started(ok) ==
    /\ loop_pc = "fallback_start"
    /\ ~Cancelling
    /\ IF ok /\ ~update_song_raises
       THEN /\ current_track' = <<AutopilotItem>>
            /\ autopilot_error_count' = 0
            /\ loop_pc' = "fallback_sleep"
            /\ obs' = ObsRecorded("start_playback", "fallback", {}, FALSE, TRUE,
                                  <<HistoryEntry(AutopilotItem.song, "Autopilot", FALSE)>>)
       ELSE IF ok
       THEN /\ current_track' = <<AutopilotItem>>
            /\ autopilot_error_count' = autopilot_error_count + 1
            /\ loop_pc' = "fallback_backoff"
            /\ obs' = ObsRecorded("start_playback", "fallback", {}, FALSE, FALSE,
                                  <<HistoryEntry(AutopilotItem.song, "Autopilot", FALSE)>>)
       ELSE /\ current_track' = current_track
            /\ autopilot_error_count' = autopilot_error_count + 1
            /\ loop_pc' = "fallback_backoff"
            /\ obs' = Obs("start_playback", "fallback", {}, TRUE, FALSE)
    /\ NoQueueCall
    /\ sleep_until' = sleep_expiry(loop_pc')
    /\ UNCHANGED <<running, stop_pc, fallback_playlist_id, track_ends, loop_item, main_loop, inflight, cvars>>

\* one of the sleeps that end a tick (8 s, 5 s, 10 s, 5 s) is over
playback_loop_resume ==
    /\ loop_pc \in {"enqueue_sleep", "fallback_sleep", "fallback_backoff", "error_sleep"}
    /\ ~Cancelling
    /\ loop_pc' = LoopTop
    /\ obs' = Obs("resume", "-", {}, FALSE, FALSE)
    /\ NoQueueCall
    /\ sleep_until' = sleep_expiry(loop_pc')
    /\ UNCHANGED <<running, stop_pc, current_track, autopilot_error_count,
                   fallback_playlist_id, track_ends, loop_item, main_loop, inflight, cvars>>

\* the task of the loop runs after task.cancel(): CancelledError at its await,
\* which no `except Exception` on the way catches; `break`
playback_loop_cancelled ==
    /\ Cancelling
    /\ loop_pc' = "done"
    /\ loop_item' = NoItem
    /\ obs' = Obs("cancelled", "-", {}, FALSE, FALSE)
    /\ NoQueueCall
    /\ sleep_until' = sleep_expiry(loop_pc')
    /\ UNCHANGED <<running, stop_pc, current_track, autopilot_error_count,
                   fallback_playlist_id, track_ends, main_loop, inflight, cvars>>

\* a stop that clears the flag and goes on without cancelling and awaiting the task
stop_no_await ==
    /\ IF ~running
       THEN /\ obs' = Obs("stop", "returned", {}, FALSE, FALSE)
            /\ UNCHANGED <<running, stop_pc>>
       ELSE /\ running' = FALSE
            /\ stop_pc' = "closing"
            /\ obs' = Obs("stop", "closing", {}, FALSE, FALSE)
    /\ NoQueueCall
    /\ UNCHANGED <<loop_pc, current_track, autopilot_error_count,
                   fallback_playlist_id, sleep_until, track_ends, loop_item, main_loop, inflight, cvars>>

\* BotOrchestrator.stop up to `await self._playback_loop_task`; a call that
\* finds the orchestrator not running returns at once
stop ==
    /\ IF ~running
       THEN /\ obs' = Obs("stop", "returned", {}, FALSE, FALSE)
            /\ UNCHANGED <<running, stop_pc>>
       ELSE /\ running' = FALSE
            /\ stop_pc' = "await_task"
            /\ obs' = Obs("stop", "cancel", {}, FALSE, FALSE)
    /\ NoQueueCall
    /\ UNCHANGED <<loop_pc, current_track, autopilot_error_count,
                   fallback_playlist_id, sleep_until, track_ends, loop_item, main_loop, inflight, cvars>>

\* stop: the awaited task is done; the chat bot and the overlay are closed
stop_task_done ==
    /\ stop_pc = "await_task"
    /\ loop_pc = "done"
    /\ stop_pc' = "closing"
    /\ obs' = Obs("stop", "closing", {}, FALSE, FALSE)
    /\ NoQueueCall
    /\ UNCHANGED <<running, loop_pc, current_track, autopilot_error_count,
                   fallback_playlist_id, sleep_until, track_ends, loop_item, main_loop, inflight, cvars>>

\* stop: `self._notify_update()` and return
stop_return ==
    /\ stop_pc = "closing"
    /\ stop_pc' = "returned"
    /\ obs' = Obs("stop", "returned", {}, FALSE, TRUE)
    /\ NoQueueCall
    /\ UNCHANGED <<running, loop_pc, current_track, autopilot_error_count,
                   fallback_playlist_id, sleep_until, track_ends, loop_item, main_loop, inflight, cvars>>

\* the chat service delivers messages from start() until stop() has closed it
ChatBotOpen == loop_pc # "none" /\ stop_pc \in {"idle", "await_task"}

\* _handle_song_request up to `await self.spotify.search_track(query)`
handle_song_request_begin(query, username) ==
    /\ ChatBotOpen
    /\ BagCardinality(inflight) < MaxHandlers
    /\ inflight' = inflight (+) SetToBag({[query |-> query, username |-> username]})
    /\ obs' = Obs("sr", "-", {"search_track"}, FALSE, FALSE)
    /\ NoQueueCall
    /\ UNCHANGED <<running, loop_pc, stop_pc, current_track, autopilot_error_count,
                   fallback_playlist_id, sleep_until, track_ends, loop_item, main_loop, cvars>>

\* a handler whose lookup was made before it was suspended: it appends its entry
\* whatever the queue holds by now
handle_song_request_stale(request, song) ==
    /\ BagIn(request, inflight)
    /\ inflight' = inflight (-) SetToBag({request})
    /\ IF song = <<>>
       THEN /\ obs' = Obs("handle_song_request", "chat.err_not_found", {}, TRUE, FALSE)
            /\ NoQueueCall
       ELSE /\ Admit(song[1], request.username)
            /\ obs' = Obs("handle_song_request", "chat.added_pos", {}, FALSE, TRUE)
    /\ UNCHANGED <<running, loop_pc, stop_pc, current_track, autopilot_error_count,
                   fallback_playlist_id, sleep_until, track_ends, loop_item, main_loop, cvars>>

\* _handle_song_request after the search: add_request and the reply
handle_song_request_done(request, song) ==
    /\ BagIn(request, inflight)
    /\ inflight' = inflight (-) SetToBag({request})
    /\ IF song = <<>>
       THEN /\ obs' = Obs("handle_song_request", "chat.err_not_found", {}, TRUE, FALSE)
            /\ NoQueueCall
       ELSE /\ add_request(song[1], request.username)
            /\ obs' = Obs("handle_song_request",
                          RequestReply(last'.result, find_in_queue(queue', song[1].uri) # 0),
                          {}, FALSE, last'.result \in {"SUCCESS", "VOTED"})
    /\ UNCHANGED <<running, loop_pc, stop_pc, current_track, autopilot_error_count,
                   fallback_playlist_id, sleep_until, track_ends, loop_item, main_loop>>

\* the same, with nobody in the chat thread concerned
handle_song_request(request, song) ==
    handle_song_request_done(request, song) /\ UNCHANGED cvars

\* BotGUI holds the orchestrator from _start_bot until _stop_bot drops it
WindowHasBot == stop_pc # "returned"

\* BotOrchestrator.force_play_next: _play_next_song(force_start=True) outside the
\* loop; the outcome of start_playback changes nothing the model keeps
force_play_next(ok) ==
    /\ WindowHasBot
    /\ pop_next
    /\ IF queue = <<>>
       THEN /\ current_track' = current_track
            /\ obs' = Obs("force_play_next", "-", {}, FALSE, FALSE)
       ELSE /\ current_track' = <<queue[1]>>
            /\ obs' = ObsRecorded("force_play_next", "force_start", {"start_playback"},
                                  ~ok, TRUE, played_entry(queue[1], TRUE, ok))
    /\ UNCHANGED <<running, loop_pc, stop_pc, autopilot_error_count,
                   fallback_playlist_id, sleep_until, track_ends, loop_item, main_loop, inflight, cvars>>

\* BotOrchestrator.clear_queue
bot_clear_queue ==
    /\ WindowHasBot
    /\ clear_queue
    /\ obs' = Obs("clear_queue", "-", {}, FALSE, TRUE)
    /\ UNCHANGED <<running, loop_pc, stop_pc, current_track, autopilot_error_count,
                   fallback_playlist_id, sleep_until, track_ends, loop_item, main_loop, inflight, cvars>>

\* BotOrchestrator.toggle_smart_voting
bot_toggle_smart_voting(enabled) ==
    /\ WindowHasBot
    /\ toggle_smart_voting(enabled)
    /\ obs' = Obs("toggle_smart_voting", "-", {}, FALSE, TRUE)
    /\ UNCHANGED <<running, loop_pc, stop_pc, current_track, autopilot_error_count,
                   fallback_playlist_id, sleep_until, track_ends, loop_item, main_loop, inflight, cvars>>

\* a method of bot.queue_manager called from outside the orchestrator; the manager
\* knows no on_update.  `refreshed`: the caller's own refresh ran after the call
manager_call(op, refreshed) ==
    /\ WindowHasBot
    /\ obs' = Obs(op, "-", {}, FALSE, refreshed)
    /\ UNCHANGED <<running, loop_pc, stop_pc, current_track, autopilot_error_count,
                   fallback_playlist_id, sleep_until, track_ends, loop_item, main_loop, inflight, cvars>>

\* BotGUI._move_item, one place up or down: the coroutine is handed to the main
\* loop and _update_ui (the function the orchestrator holds as on_update) is
\* scheduled on the window's thread at once, so the refresh runs before or after
\* the move
window_move_item(index, direction, refreshed) ==
    move_item(index, index + direction) /\ manager_call("move_item", refreshed)

\* BotGUI._unpin_item, in the same way
window_unpin_item(index, refreshed) ==
    unpin_item(index) /\ manager_call("unpin_item", refreshed)

\* BotGUI._remove_item, in the same way
window_remove_item(index, refreshed) ==
    remove_item(index) /\ manager_call("remove_item", refreshed)

\* QueueManager.pin_item on the orchestrator's manager: nothing refreshes
manager_pin_item(index) == pin_item(index) /\ manager_call("pin_item", FALSE)

\* QueueManager.set_requests_paused on the orchestrator's manager: nothing refreshes
manager_set_requests_paused(paused) ==
    set_requests_paused(paused) /\ manager_call("set_requests_paused", FALSE)

\* the playback loop
LoopStep ==
    \/ playback_loop_wake
    \/ \E state \in PlaybackStates : playback_loop_tick(state)
    \/ \E ok \in BOOLEAN : play_next_song_done(ok)
    \/ playback_loop_resume
    \/ playback_loop_cancelled

\* the rest of _play_fallback
FallbackStep ==
    \/ \E found \in BOOLEAN : play_fallback_fetched(found)
    \/ \E ok \in BOOLEAN : play_fallback_started(ok)

\* stop()
StopStep ==
    \/ stop
    \/ stop_task_done
    \/ stop_return

\* the manager of a constructed orchestrator, holding a blacklist configuration
OrchManagerInit ==
    /\ queue = <<>>
    /\ history = <<>>
    /\ user_cooldowns = <<>>
    /\ smart_voting_enabled \in BOOLEAN
    /\ requests_paused = FALSE
    /\ blacklist = [songs |-> <<>>, artists |-> <<>>]
    /\ rules = OrchRules
    /\ locked = FALSE
    /\ now = 0
    /\ last = NoCall

\* a constructed orchestrator
OrchInit ==
    /\ OrchManagerInit
    /\ BotOrchestratorInit
    /\ NoPlayer
    /\ fallback_playlist_id \in { <<>>, <<"playlist">> }
    /\ NoChatService

\* the track the chat requests of SpecOrch name
OrchQueries == { "u1" }

\* one orchestrator from start() to stop(); the chat thread waits for the
\* handler of one request before it sends the next
OrchNext ==
    \/ \E connected \in BOOLEAN : start(connected)
    \/ LoopStep
    \/ FallbackStep
    \/ StopStep
    \/ \E query \in OrchQueries, username \in Users :
          inflight = EmptyBag /\ handle_song_request_begin(query, username)
    \/ \E request \in BagToSet(inflight) :
          \E song \in SearchResults(request.query) : handle_song_request(request, song)
    \/ \E ok \in BOOLEAN : force_play_next(ok)
    \/ bot_clear_queue

SpecOrch == OrchInit /\ [][OrchNext]_vars

\* an orchestrator without fallback playlist
RequestsInit ==
    /\ OrchInit
    /\ fallback_playlist_id = <<>>

\* the tracks the chat requests of SpecRequests name
RequestQueries == { "u1" }

\* a running orchestrator: chat requests whose handlers overlap (the wrapper of
\* the chat thread gives up after its timeout and the handler goes on), the
\* playback loop, the controls of the window
RequestsNext ==
    \/ \E connected \in BOOLEAN : start(connected)
    \/ LoopStep
    \/ StopStep
    \/ \E query \in RequestQueries, username \in Users :
          handle_song_request_begin(query, username)
    \/ \E request \in BagToSet(inflight) :
          \E song \in SearchResults(request.query) : handle_song_request(request, song)

SpecRequests == RequestsInit /\ [][RequestsNext]_vars

\* the tracks the chat requests of SpecWindow name
WindowQueries == { "u1", "u2" }

\* a running orchestrator and the controls of the window
WindowNext ==
    \/ \E connected \in BOOLEAN : start(connected)
    \/ \E query \in WindowQueries, username \in Users :
          inflight = EmptyBag /\ handle_song_request_begin(query, username)
    \/ \E request \in BagToSet(inflight) :
          \E song \in SearchResults(request.query) : handle_song_request(request, song)
    \/ bot_clear_queue
    \/ \E enabled \in BOOLEAN : bot_toggle_smart_voting(enabled)
    \/ \E index \in 0..(Len(queue) - 1), direction \in {-1, 1}, refreshed \in BOOLEAN :
          window_move_item(index, direction, refreshed)
    \/ \E index \in 0..(Len(queue) - 1), refreshed \in BOOLEAN :
          window_unpin_item(index, refreshed)
    \/ \E index \in 0..(Len(queue) - 1), refreshed \in BOOLEAN :
          window_remove_item(index, refreshed)
    \/ \E index \in 0..(Len(queue) - 1) : manager_pin_item(index)
    \/ \E paused \in BOOLEAN : manager_set_requests_paused(paused)

SpecWindow == RequestsInit /\ [][WindowNext]_vars

----------------------------------------------------------------------------
(* start() and stop() called again and again on one orchestrator          *)
(*                                                                         *)
(* start() tests _running before `await self.spotify.connect()` and sets   *)
(* it after `await self.obs_overlay.start()`: the coroutine is suspended   *)
(* between the test and the assignment.  `_playback_loop_task` refers to   *)
(* the task created last; loop_pc is the position of that task.  A task    *)
(* whose reference was overwritten keeps running on the main loop: it is   *)
(* held in `inflight`, like a start() that is suspended.                   *)

\* start() coroutines in flight together with the loop tasks left behind
MaxStarts == 2

\* a coroutine or task on the main loop: what it runs, where it is suspended, and
\* whether task.cancel() was called on it
Task(op, pc, cancelled) == [op |-> op, pc |-> pc, cancelled |-> cancelled]

\* a start() suspended at connect() / obs_overlay.start()
StartCall == Task("start", "connect", FALSE)

\* BotOrchestrator.start up to `await self.spotify.connect()`
start_begin ==
    /\ IF running
       THEN /\ obs' = Obs("start", "returned", {}, FALSE, FALSE)
            /\ UNCHANGED <<main_loop, inflight>>
       ELSE /\ BagCardinality(inflight) < MaxStarts
            /\ main_loop' = TRUE
            /\ inflight' = inflight (+) SetToBag({StartCall})
            /\ obs' = Obs("start", "-", {"connect"}, FALSE, FALSE)
    /\ NoQueueCall
    /\ UNCHANGED <<running, loop_pc, stop_pc, current_track, loop_item,
                   autopilot_error_count, fallback_playlist_id, sleep_until, track_ends, cvars>>

\* the tasks on the main loop after `self._playback_loop_task = create_task(...)`:
\* the task referenced before stays scheduled unless it is finished and nobody
\* awaits it
left_behind(tasks) ==
    IF loop_pc = "none" \/ (loop_pc = "done" /\ stop_pc # "await_task")
    THEN tasks
    ELSE tasks (+) SetToBag({Task("_playback_loop", loop_pc, stop_pc = "await_task")})

\* BotOrchestrator.start after its awaits: `self._running = True`, create_task,
\* _notify_update; or `except Exception`: `self._running = False`, raise.
\* A stop() that awaits the task referenced so far goes on awaiting that task
start_resume(connected) ==
    /\ BagIn(StartCall, inflight)
    /\ IF connected
       THEN /\ running' = TRUE
            /\ inflight' = left_behind(inflight (-) SetToBag({StartCall}))
            /\ loop_pc' = "sleep"
            /\ sleep_until' = sleep_expiry("sleep")
            /\ loop_item' = NoItem
            /\ stop_pc' = IF stop_pc = "await_task" THEN "await_orphan" ELSE stop_pc
            /\ obs' = Obs("start", "started", {}, FALSE, TRUE)
       ELSE /\ running' = FALSE
            /\ inflight' = inflight (-) SetToBag({StartCall})
            /\ obs' = Obs("start", "raised", {}, TRUE, FALSE)
            /\ UNCHANGED <<loop_pc, loop_item, sleep_until, stop_pc>>
    /\ NoQueueCall
    /\ UNCHANGED <<current_track, autopilot_error_count, fallback_playlist_id,
                   track_ends, main_loop, cvars>>

\* the tasks of _playback_loop that are no longer referenced
Orphans == { task \in BagToSet(inflight) : task.op = "_playback_loop" }

\* `inflight` with one `task` replaced by what became of it
Moved(task, pc) ==
    (inflight (-) SetToBag({task})) (+) SetToBag({Task(task.op, pc, task.cancelled)})

\* _playback_loop of an unreferenced task: asyncio.sleep(4) is over
orphan_wake(task) ==
    /\ task \in Orphans
    /\ ~task.cancelled
    /\ task.pc = "sleep"
    /\ inflight' = Moved(task, "state")
    /\ obs' = Obs("wake", "orphan", {"get_playback_state"}, FALSE, FALSE)
    /\ NoQueueCall
    /\ UNCHANGED <<running, loop_pc, stop_pc, current_track, loop_item,
                   autopilot_error_count, fallback_playlist_id, sleep_until, track_ends, main_loop, cvars>>

\* _playback_loop of an unreferenced task: the tick on an empty queue without
\* fallback playlist does nothing, then `while self._running` is tested
orphan_tick(task) ==
    /\ task \in Orphans
    /\ ~task.cancelled
    /\ task.pc = "state"
    /\ queue = <<>>
    /\ fallback_playlist_id = <<>>
    /\ inflight' = IF running THEN Moved(task, "sleep") ELSE inflight (-) SetToBag({task})
    /\ obs' = Obs("tick", "orphan", {}, FALSE, FALSE)
    /\ NoQueueCall
    /\ UNCHANGED <<running, loop_pc, stop_pc, current_track, loop_item,
                   autopilot_error_count, fallback_playlist_id, sleep_until, track_ends, main_loop, cvars>>

\* the unreferenced task that stop() cancelled runs: CancelledError, `break`
orphan_cancelled(task) ==
    /\ task \in Orphans
    /\ task.cancelled
    /\ task.pc # "done"
    /\ inflight' = Moved(task, "done")
    /\ obs' = Obs("cancelled", "orphan", {}, FALSE, FALSE)
    /\ NoQueueCall
    /\ UNCHANGED <<running, loop_pc, stop_pc, current_track, loop_item,
                   autopilot_error_count, fallback_playlist_id, sleep_until, track_ends, main_loop, cvars>>

\* stop: the awaited task, unreferenced by now, is done
stop_orphan_done(task) ==
    /\ stop_pc = "await_orphan"
    /\ task \in Orphans
    /\ task.cancelled
    /\ task.pc = "done"
    /\ inflight' = inflight (-) SetToBag({task})
    /\ stop_pc' = "closing"
    /\ obs' = Obs("stop", "closing", {}, FALSE, FALSE)
    /\ NoQueueCall
    /\ UNCHANGED <<running, loop_pc, current_track, loop_item,
                   autopilot_error_count, fallback_playlist_id, sleep_until, track_ends, main_loop, cvars>>

\* no stop() is suspended
StopIdle == stop_pc \in {"idle", "returned"}

\* start() and stop() in every order, one stop() at a time; nothing is requested
\* and no fallback playlist is configured, so every tick finds nothing to do
StartNext ==
    \/ start_begin
    \/ \E connected \in BOOLEAN : start_resume(connected)
    \/ playback_loop_wake
    \/ \E state \in PlaybackStates : playback_loop_tick(state)
    \/ playback_loop_cancelled
    \/ \E task \in Orphans : orphan_wake(task)
    \/ \E task \in Orphans : orphan_tick(task)
    \/ \E task \in Orphans : orphan_cancelled(task)
    \/ StopIdle /\ stop
    \/ stop_task_done
    \/ \E task \in Orphans : stop_orphan_done(task)
    \/ stop_return

SpecStart == RequestsInit /\ [][StartNext]_vars

----------------------------------------------------------------------------
(* Two loop tasks with a fallback playlist                                 *)
(*                                                                         *)
(* The tasks that overlapping start() calls leave behind run the same      *)
(* _playback_loop on the same orchestrator: each of them tests and writes  *)
(* _autopilot_error_count.                                                 *)

\* _playback_loop of an unreferenced task: the tick finds nothing queued and
\* nothing playing and calls _play_fallback, up to its first await
orphan_play_fallback(task) ==
    /\ task \in Orphans
    /\ task.pc = "state"
    /\ queue = <<>>
    /\ fallback_playlist_id # <<>>
    /\ inflight' = IF autopilot_error_count >= FallbackThreshold
                   THEN Moved(task, "sleep")
                   ELSE Moved(task, "fallback_fetch")
    /\ obs' = Obs("tick", "orphan", IF autopilot_error_count >= FallbackThreshold
                                    THEN {} ELSE {"get_random_fallback_track"}, FALSE, FALSE)
    /\ NoQueueCall
    /\ UNCHANGED <<running, loop_pc, stop_pc, current_track, loop_item,
                   autopilot_error_count, fallback_playlist_id, sleep_until, track_ends, main_loop, cvars>>

\* _play_fallback of an unreferenced task after get_random_fallback_track
orphan_fallback_fetched(task, found) ==
    /\ task \in Orphans
    /\ task.pc = "fallback_fetch"
    /\ inflight' = Moved(task, IF found THEN "fallback_start" ELSE "sleep")
    /\ obs' = Obs("get_random_fallback_track", "orphan",
                  IF found THEN {"start_playback"} ELSE {}, ~found, FALSE)
    /\ NoQueueCall
    /\ UNCHANGED <<running, loop_pc, stop_pc, current_track, loop_item,
                   autopilot_error_count, fallback_playlist_id, sleep_until, track_ends, main_loop, cvars>>

\* _play_fallback of an unreferenced task after start_playback, as in
\* play_fallback_started; the sleep that follows and the sleep at the top of the
\* loop are taken as one
orphan_fallback_started(task, ok) ==
    /\ task \in Orphans
    /\ task.pc = "fallback_start"
    /\ inflight' = Moved(task, "sleep")
    /\ IF ok /\ ~update_song_raises
       THEN /\ current_track' = <<AutopilotItem>>
            /\ autopilot_error_count' = 0
            /\ obs' = ObsRecorded("start_playback", "orphan", {}, FALSE, TRUE,
                                  <<HistoryEntry(AutopilotItem.song, "Autopilot", FALSE)>>)
       ELSE IF ok
       THEN /\ current_track' = <<AutopilotItem>>
            /\ autopilot_error_count' = autopilot_error_count + 1
            /\ obs' = ObsRecorded("start_playback", "orphan", {}, FALSE, FALSE,
                                  <<HistoryEntry(AutopilotItem.song, "Autopilot", FALSE)>>)
       ELSE /\ autopilot_error_count' = autopilot_error_count + 1
            /\ obs' = Obs("start_playback", "orphan", {}, TRUE, FALSE)
            /\ UNCHANGED current_track
    /\ NoQueueCall
    /\ UNCHANGED <<running, loop_pc, stop_pc, loop_item, fallback_playlist_id,
                   sleep_until, track_ends, main_loop, cvars>>

\* a constructed orchestrator with a fallback playlist
LoopsInit ==
    /\ OrchInit
    /\ fallback_playlist_id = <<"playlist">>

\* start() calls that overlap, and every loop task they create; nothing is
\* requested, so every tick that finds nothing playing attempts a fallback
LoopsNext ==
    \/ start_begin
    \/ \E connected \in BOOLEAN : start_resume(connected)
    \/ playback_loop_wake
    \/ \E state \in PlaybackStates : playback_loop_tick(state)
    \/ \E found \in BOOLEAN : play_fallback_fetched(found)
    \/ \E ok \in BOOLEAN : play_fallback_started(ok)
    \/ playback_loop_resume
    \/ \E task \in Orphans : orphan_wake(task)
    \/ \E task \in Orphans : orphan_play_fallback(task)
    \/ \E task \in Orphans, found \in BOOLEAN : orphan_fallback_fetched(task, found)
    \/ \E task \in Orphans, ok \in BOOLEAN : orphan_fallback_started(task, ok)

SpecLoops == LoopsInit /\ [][LoopsNext]_vars

----------------------------------------------------------------------------
(* The running loop under fair scheduling                                  *)
(*                                                                         *)
(* The event loop runs every task that is ready and every asyncio.sleep    *)
(* expires, so a step of the playback loop that stays possible is taken.   *)
(* Nothing stops the orchestrator and nothing is removed from the queue.   *)

\* three entries fit, so that a request can vote while two are queued
LiveRules == RulesConfig(3, 2, 1, 0, 0)

\* the tracks the chat requests of SpecLive name
LiveQueries == { "u1", "u2" }

\* a constructed orchestrator without fallback playlist
LiveInit ==
    /\ queue = <<>>
    /\ history = <<>>
    /\ user_cooldowns = <<>>
    /\ smart_voting_enabled \in BOOLEAN
    /\ requests_paused = FALSE
    /\ blacklist = [songs |-> <<>>, artists |-> <<>>]
    /\ rules = LiveRules
    /\ locked = FALSE
    /\ now = 0
    /\ last = NoCall
    /\ BotOrchestratorInit
    /\ NoPlayer
    /\ fallback_playlist_id = <<>>
    /\ NoChatService

\* the playback states on which a tick with a non-empty queue pops: nothing is
\* playing, or the playing track has less than 10 s left
Advancing ==
    { state \in PlaybackStates \ { <<>> } :
        \/ ~state[1].is_playing
        \/ /\ state[1].current_track # <<>>
           /\ state[1].progress_ms # <<>>
           /\ ending_soon(state[1]) }

\* a tick on such a state
advancing_tick == \E state \in Advancing : playback_loop_tick(state)

\* the steps of the loop of an orchestrator that is not stopped
LiveLoopStep ==
    \/ playback_loop_wake
    \/ \E state \in PlaybackStates : playback_loop_tick(state)
    \/ \E ok \in BOOLEAN : play_next_song_done(ok)
    \/ playback_loop_resume

LiveNext ==
    \/ \E connected \in BOOLEAN : start(connected)
    \/ LiveLoopStep
    \/ \E query \in LiveQueries, username \in Users :
          inflight = EmptyBag /\ handle_song_request_begin(query, username)
    \/ \E request \in BagToSet(inflight) :
          \E song \in SearchResults(request.query) : handle_song_request(request, song)

\* the loop is scheduled fairly, and the backend reports again and again a state
\* in which nothing is playing or the playing track is in its last 10 seconds
SpecLive ==
    /\ LiveInit
    /\ [][LiveNext]_vars
    /\ WF_vars(LiveLoopStep)
    /\ SF_vars(advancing_tick)

----------------------------------------------------------------------------
(* The loop and the `next` control of the window                           *)

\* the running loop, chat requests for two tracks, and force_play_next from the
\* window at any moment, also while the loop is suspended in a backend call
ForceNext ==
    \/ LiveNext
    \/ \E ok \in BOOLEAN : force_play_next(ok)

SpecForce == LiveInit /\ [][ForceNext]_vars

----------------------------------------------------------------------------
(* The loop against the clock                                              *)
(*                                                                         *)
(* `now` counts seconds.  asyncio.sleep(d) returns no earlier than d       *)
(* seconds after the call; a backend call takes any time.  The backend     *)
(* plays one track after the other without a gap, so every tick finds a    *)
(* track playing; get_playback_state reports its duration and progress.    *)

\* the length of the tracks the backend plays, in seconds
TrackSeconds == 12

\* the clock stops here
MaxTime == 20

\* a started orchestrator is not needed: the backend is already playing
TimedInit ==
    /\ OrchManagerInit
    /\ BotOrchestratorInit
    /\ track_ends = TrackSeconds
    /\ fallback_playlist_id = <<>>
    /\ NoChatService

\* a second passes; at the end of the playing track the next one begins
second_passes ==
    /\ now < MaxTime
    /\ now' = now + 1
    /\ track_ends' = IF now' = track_ends THEN now' + TrackSeconds ELSE track_ends
    /\ UNCHANGED <<queue, history, user_cooldowns, smart_voting_enabled,
                   requests_paused, blacklist, rules, locked, last>>
    /\ UNCHANGED <<running, loop_pc, stop_pc, current_track, loop_item, sleep_until,
                   autopilot_error_count, fallback_playlist_id, main_loop, inflight, obs>>
    /\ UNCHANGED cvars

\* what get_playback_state returns while the track that ends at track_ends plays
PlayerState ==
    << PlaybackState(TRUE, <<TrackSeconds * 1000>>,
                     <<(TrackSeconds - (track_ends - now)) * 1000>>) >>

\* asyncio.sleep(4) has returned
timed_wake == now >= sleep_until /\ playback_loop_wake

\* asyncio.sleep(8) or asyncio.sleep(5) has returned
timed_resume == now >= sleep_until /\ playback_loop_resume

\* the tick on the state of the player
timed_tick == playback_loop_tick(PlayerState)

TimedNext ==
    \/ \E connected \in BOOLEAN : start(connected)
    \/ second_passes
    \/ timed_wake
    \/ timed_tick
    \/ \E ok \in BOOLEAN : play_next_song_done(ok)
    \/ timed_resume
    \/ \E query \in OrchQueries :
          inflight = EmptyBag /\ handle_song_request_begin(query, "alice")
    \/ \E request \in BagToSet(inflight) :
          \E song \in SearchResults(request.query) : handle_song_request(request, song)

SpecTimed == TimedInit /\ [][TimedNext]_vars

----------------------------------------------------------------------------
(* The manual controls of the queue, with what each call returns          *)

\* `0 <= index < len(self._queue)`
in_range(index) == 0 <= index /\ index < Len(queue)

\* what the calls return: `return True` / `return False`
move_item_returns(from_index, to_index) == in_range(from_index) /\ in_range(to_index)

pin_item_returns(index) == in_range(index)

unpin_item_returns(index) == in_range(index)

remove_item_returns(index) == in_range(index)

\* Python's repr of a bool
Repr(value) == IF value THEN "True" ELSE "False"

\* the tracks of the queued entries in the order in which add_request created the
\* entries, as the caller of the manager has seen it
Admitted == IF obs.op = "-" THEN <<>> ELSE obs.result.admitted

\* an entry for the track of `uri` is queued after the call
StillQueued(uri) == \E i \in 1..Len(queue') : queue'[i].song.uri = uri

\* the same order after the call: a SUCCESS adds the track at the end, and the
\* tracks that left the queue are dropped
AdmittedAfter(op, args, value) ==
    SelectSeq(IF op = "add_request" /\ value = "SUCCESS"
              THEN Append(Admitted, args[1]) ELSE Admitted,
              StillQueued)

\* the caller of the manager passed `args` and gets `value` back; no orchestrator
\* is involved
returned(op, args, value) ==
    /\ obs' = Obs(op, [args |-> args, value |-> value,
                       admitted |-> AdmittedAfter(op, args, value)], {}, FALSE, FALSE)
    /\ UNCHANGED <<running, loop_pc, stop_pc, current_track, loop_item, sleep_until,
                   track_ends, autopilot_error_count, fallback_playlist_id, main_loop,
                   inflight, cvars>>

\* a manager with room for three entries and without blacklist or cooldowns
ControlsInit ==
    /\ queue = <<>>
    /\ history = <<>>
    /\ user_cooldowns = <<>>
    /\ smart_voting_enabled \in BOOLEAN
    /\ requests_paused = FALSE
    /\ blacklist = [songs |-> <<>>, artists |-> <<>>]
    /\ rules = LiveRules
    /\ locked = FALSE
    /\ now = 0
    /\ last = NoCall
    /\ BotOrchestratorInit
    /\ NoPlayer
    /\ fallback_playlist_id = <<>>
    /\ NoChatService

ControlsNext ==
    \/ \E song \in Songs, username \in Users :
          /\ add_request(song, username)
          /\ returned("add_request", <<song.uri, username>>, last'.result)
    \/ pop_next /\ returned("pop_next", <<>>, last'.result)
    \/ \E indices \in MoveIndices :
          /\ move_item(indices[1], indices[2])
          /\ returned("move_item", indices, Repr(move_item_returns(indices[1], indices[2])))
    \/ \E index \in Indices :
          pin_item(index) /\ returned("pin_item", <<index>>, Repr(pin_item_returns(index)))
    \/ \E index \in Indices :
          unpin_item(index) /\ returned("unpin_item", <<index>>, Repr(unpin_item_returns(index)))
    \/ \E index \in Indices :
          remove_item(index) /\ returned("remove_item", <<index>>, Repr(remove_item_returns(index)))
    \/ \E enabled \in BOOLEAN :
          toggle_smart_voting(enabled) /\ returned("toggle_smart_voting", <<enabled>>, "None")

SpecControls == ControlsInit /\ [][ControlsNext]_vars

----------------------------------------------------------------------------
(* The chat thread (services/twitch_service.py) and the wrappers it calls  *)
(*                                                                         *)
(* event_message runs on the event loop of the chat service.  A callback   *)
(* of the orchestrator is an ordinary function: while it waits for the     *)
(* future of the coroutine it scheduled on the main loop, the chat thread  *)
(* is blocked and no other message is handled.                             *)

\* `future.result(timeout=15)`
RequestTimeout == 15

\* `future.result(timeout=10)`
SkipTimeout == 10

\* seconds that pass in one step while the chat thread waits for a future
PollSeconds == 5

\* the badges a chatter can carry
Badges == { "broadcaster", "moderator", "subscriber" }

\* the commands only privileged chatters are meant to use
Privileged ==
    { "skip", "clearqueue", "addblacklist", "removeblacklist", "pauserequests", "resumerequests" }

\* the commands that are refused without an argument
NeedsEntry == { "sr", "addblacklist", "removeblacklist" }

\* the callbacks _start_twitch_bot hands to TwitchBotService
OrchestratorCallbacks == { "sr", "skip", "currentsong" }

\* the command permissions of the configurations that are modelled: the defaults;
\* the privileged commands for the broadcaster alone; the privileged commands for
\* subscribers, for followers, for everyone
PermissionConfigs ==
    { DefaultPermissions }
      \cup { [ c \in Commands |-> IF c \in Privileged THEN level ELSE "everyone" ] :
                level \in { "broadcaster", "subscribers", "followers", "everyone" } }

\* a moderators level that every badge satisfies
check_command_permission_any_badge(required_perm, badges, follows) ==
    IF required_perm = "everyone" THEN TRUE
    ELSE IF required_perm = "broadcaster" THEN "broadcaster" \in badges
    ELSE IF required_perm = "moderators" THEN badges # {}
    ELSE IF required_perm = "subscribers"
    THEN "broadcaster" \in badges \/ "moderator" \in badges \/ "subscriber" \in badges
    ELSE IF required_perm = "followers"
    THEN \/ "broadcaster" \in badges \/ "moderator" \in badges \/ "subscriber" \in badges
         \/ follows \in {"yes", "error"}
    ELSE TRUE

\* TwitchBotService._check_command_permission (the boolean of the returned tuple);
\* `follows` is the outcome of the follower lookup: "yes", "no", or "error"
check_command_permission(required_perm, badges, follows) ==
    IF required_perm = "everyone" THEN TRUE
    ELSE IF required_perm = "broadcaster" THEN "broadcaster" \in badges
    ELSE IF required_perm = "moderators"
    THEN "broadcaster" \in badges \/ "moderator" \in badges
    ELSE IF required_perm = "subscribers"
    THEN "broadcaster" \in badges \/ "moderator" \in badges \/ "subscriber" \in badges
    ELSE IF required_perm = "followers"
    THEN \/ "broadcaster" \in badges \/ "moderator" \in badges \/ "subscriber" \in badges
         \/ follows \in {"yes", "error"}
    ELSE TRUE

\* how event_message or a callback dealt with a command: `reply` is the text sent
\* to the chat, "raised" if an exception left the function instead
Answer(command, outcome, reply) ==
    << [command |-> command, outcome |-> outcome, reply |-> reply] >>

\* the coroutine a wrapper schedules on the main loop
Coroutine(op, query, username, awaited) ==
    [op |-> op, query |-> query, username |-> username, awaited |-> awaited]

\* the timeout of the wrapper of a command
Timeout(command) == IF command = "sr" THEN RequestTimeout ELSE SkipTimeout

\* the reply of a wrapper when its call did not succeed
ErrorReply(command) == IF command = "sr" THEN "chat.err_not_found" ELSE "skip.error"

\* the step belongs to the chat thread alone
ChatOnly ==
    /\ NoQueueCall
    /\ UNCHANGED <<running, loop_pc, stop_pc, current_track, autopilot_error_count,
                   fallback_playlist_id, sleep_until, track_ends, loop_item, main_loop, command_permissions, callbacks>>

\* TwitchBotService.event_message for one command of the chat, up to the call of
\* the callback.  A refused chatter is answered through self.i18n, an attribute
\* the service never sets: the AttributeError leaves event_message.
event_message(command, badges, username, entry, follows) ==
    /\ chat.pc = "idle"
    /\ BagCardinality(inflight) < MaxHandlers
    /\ IF ~check_command_permission(command_permissions[command], badges, follows)
       THEN /\ answered' = Answer(command, "denied", "raised")
            /\ chat' = chat
       ELSE IF command \in NeedsEntry /\ entry = ""
       THEN /\ answered' = Answer(command, "usage", "usage")
            /\ chat' = chat
       ELSE IF command # "sr" /\ command \notin callbacks
       THEN /\ answered' = Answer(command, "unavailable", "unavailable")
            /\ chat' = chat
       ELSE /\ answered' = answered
            /\ chat' = [pc |-> "callback", command |-> command, badges |-> badges,
                        username |-> username, entry |-> entry, waited |-> 0]
    /\ obs' = Obs("event_message", command, {}, FALSE, FALSE)
    /\ inflight' = inflight
    /\ ChatOnly

\* a callback returns its reply and event_message sends it
callback_return ==
    /\ chat.pc = "callback"
    /\ answered' = Answer(chat.command, "called", "reply")
    /\ chat' = ChatIdle
    /\ obs' = Obs("callback", chat.command, {}, FALSE, FALSE)
    /\ inflight' = inflight
    /\ ChatOnly

\* _handle_song_request_sync and _handle_skip_sync up to future.result
handle_sync ==
    /\ chat.pc = "callback"
    /\ chat.command \in {"sr", "skip"}
    /\ IF ~main_loop
       THEN /\ answered' = Answer(chat.command, "NO_LOOP", ErrorReply(chat.command))
            /\ chat' = ChatIdle
            /\ inflight' = inflight
       ELSE /\ answered' = answered
            /\ chat' = [chat EXCEPT !.pc = "waiting"]
            /\ inflight' = inflight (+)
                  SetToBag({Coroutine(chat.command, chat.entry, chat.username, TRUE)})
    /\ obs' = Obs("sync", chat.command, {}, FALSE, FALSE)
    /\ ChatOnly

\* the chat thread is blocked in future.result and the timeout is not reached
future_wait ==
    /\ chat.pc = "waiting"
    /\ chat.waited < Timeout(chat.command)
    /\ chat' = [chat EXCEPT !.waited = IF chat.waited + PollSeconds < Timeout(chat.command)
                                        THEN chat.waited + PollSeconds
                                        ELSE Timeout(chat.command)]
    /\ UNCHANGED <<answered, inflight, obs>>
    /\ ChatOnly

\* a wrapper whose timeout leaves it as an exception
future_timeout_raises ==
    /\ chat.pc = "waiting"
    /\ chat.waited = Timeout(chat.command)
    /\ answered' = Answer(chat.command, "TIMEOUT", "raised")
    /\ chat' = ChatIdle
    /\ inflight' = (inflight (-) SetToBag({Coroutine(chat.command, chat.entry, chat.username, TRUE)}))
                      (+) SetToBag({Coroutine(chat.command, chat.entry, chat.username, FALSE)})
    /\ obs' = Obs("sync", "timeout", {}, TRUE, FALSE)
    /\ ChatOnly

\* future.result raises TimeoutError: the wrapper answers with its error reply;
\* the coroutine is not cancelled and stays scheduled on the main loop
future_timeout ==
    /\ chat.pc = "waiting"
    /\ chat.waited = Timeout(chat.command)
    /\ answered' = Answer(chat.command, "TIMEOUT", ErrorReply(chat.command))
    /\ chat' = ChatIdle
    /\ inflight' = (inflight (-) SetToBag({Coroutine(chat.command, chat.entry, chat.username, TRUE)}))
                      (+) SetToBag({Coroutine(chat.command, chat.entry, chat.username, FALSE)})
    /\ obs' = Obs("sync", "timeout", {}, TRUE, FALSE)
    /\ ChatOnly

\* the wrapper, if it still waits for this coroutine, returns `reply`
future_result(request, outcome, reply) ==
    /\ IF request.awaited
       THEN /\ answered' = Answer(request.op, outcome, reply)
            /\ chat' = ChatIdle
       ELSE UNCHANGED <<answered, chat>>
    /\ UNCHANGED <<command_permissions, callbacks>>

\* the coroutine of _handle_song_request finishes on the main loop
song_request_result(request, song) ==
    /\ request.op = "sr"
    /\ handle_song_request_done(request, song)
    /\ future_result(request, IF song = <<>> THEN "NOT_FOUND" ELSE last'.result, obs'.result)

\* a coroutine ends with an exception (search_track raises when the client is
\* not connected): future.result raises it into the wrapper's `except Exception`
coroutine_raised(request) ==
    /\ BagIn(request, inflight)
    /\ inflight' = inflight (-) SetToBag({request})
    /\ obs' = Obs(request.op, "raised", {}, TRUE, FALSE)
    /\ NoQueueCall
    /\ UNCHANGED <<running, loop_pc, stop_pc, current_track, autopilot_error_count,
                   fallback_playlist_id, sleep_until, track_ends, loop_item, main_loop>>
    /\ future_result(request, "RAISED", ErrorReply(request.op))

\* BotOrchestrator.skip_current finishes; the wrapper names the current track
skip_current(request) ==
    /\ request.op = "skip"
    /\ BagIn(request, inflight)
    /\ inflight' = inflight (-) SetToBag({request})
    /\ obs' = ObsRecorded("skip_current", "-", {"skip_track"}, FALSE, FALSE,
                          IF current_track = <<>> THEN <<>>
                          ELSE <<HistoryEntry(current_track[1].song,
                                              first_requester(current_track[1]), TRUE)>>)
    /\ NoQueueCall
    /\ UNCHANGED <<running, loop_pc, stop_pc, current_track, autopilot_error_count,
                   fallback_playlist_id, sleep_until, track_ends, loop_item, main_loop>>
    /\ future_result(request, "skipped",
                     IF current_track # <<>> THEN "skip.done_track" ELSE "skip.done")

\* the chat service the orchestrator builds, with the default permissions
ChatInit ==
    /\ OrchManagerInit
    /\ BotOrchestratorInit
    /\ NoPlayer
    /\ fallback_playlist_id = <<>>
    /\ command_permissions = DefaultPermissions
    /\ callbacks = OrchestratorCallbacks
    /\ chat = ChatIdle
    /\ answered = <<>>

\* the tracks the chat requests of SpecChat name
ChatQueries == { "u1" }

\* the chatters of SpecChat: a viewer and a moderator
ChatBadges == { {}, {"moderator"} }

\* the chat thread in the wrappers of the orchestrator, and the coroutines the
\* wrappers schedule
ChatNext ==
    \/ \E connected \in BOOLEAN : start(connected)
    \/ \E command \in {"sr", "skip"}, badges \in ChatBadges, username \in Users :
          \E entry \in {""} \cup ChatQueries : event_message(command, badges, username, entry, "no")
    \/ handle_sync
    \/ future_wait
    \/ future_timeout
    \/ \E request \in BagToSet(inflight) :
          \E song \in SearchResults(request.query) : song_request_result(request, song)
    \/ \E request \in BagToSet(inflight) : coroutine_raised(request)
    \/ \E request \in BagToSet(inflight) : skip_current(request)

SpecChat == ChatInit /\ [][ChatNext]_vars

\* a chat service with any of the modelled permissions, given the callbacks of
\* the orchestrator or a callback for every command
GateInit ==
    /\ OrchManagerInit
    /\ smart_voting_enabled = TRUE
    /\ BotOrchestratorInit
    /\ NoPlayer
    /\ fallback_playlist_id = <<>>
    /\ command_permissions \in PermissionConfigs
    /\ callbacks \in { OrchestratorCallbacks, Commands }
    /\ chat = ChatIdle
    /\ answered = <<>>

\* every command from every chatter; the callback is taken as a whole
GateNext ==
    \/ \E command \in Commands, badges \in SUBSET Badges, entry \in {"", "x"} :
          \E follows \in {"yes", "no", "error"} :
              event_message(command, badges, "alice", entry, follows)
    \/ callback_return

SpecGate == GateInit /\ [][GateNext]_vars

----------------------------------------------------------------------------
(* Vocabulary of the properties *)

\* the step is a call of add_request
IsRequest == last'.op = "add_request"

\* the step is the call add_request(song, username)
Requested(song, username) == add_request(song, username)

\* positions of the entries for a URI
PositionsOf(q, uri) == { i \in 1..Len(q) : q[i].song.uri = uri }

\* the entries of q that list the user among their requesters
EntriesOf(q, username) ==
    { i \in 1..Len(q) : \E k \in 1..Len(q[i].requesters) : q[i].requesters[k] = username }

\* a check that add_request makes before it looks at the queue size
RejectedBeforeSize(song, username) ==
    \/ requests_paused
    \/ check_user_cooldown(username)
    \/ check_blacklist(song)

\* a check that add_request makes before it looks the URI up in the queue
RejectedBeforeLookup(song, username) ==
    \/ RejectedBeforeSize(song, username)
    \/ Len(queue) >= rules.max_queue_size
    \/ Cardinality(EntriesOf(queue, username)) >= rules.max_user_requests
    \/ song.duration_ms > rules.max_song_length_minutes * 60000

----------------------------------------------------------------------------
(* Construction of the orchestrator from a configuration                   *)
(*                                                                         *)
(* BotOrchestrator.__init__ builds its QueueManager with two positional    *)
(* arguments.  A Python value is modelled with its type, so that the       *)
(* binding of arguments to parameters and an attribute access on a value   *)
(* of the wrong type are computed as Python computes them.                 *)

\* a Python value and its type
Py(type, value) == [type |-> type, value |-> value]

\* BotConfig: the fields the construction reads
BotConfigs ==
    [ rules : RulesConfigs, blacklist : BlacklistConfigs,
      smart_voting_enabled : BOOLEAN, requests_paused : BOOLEAN ]

\* `QueueManager(config.rules, config.smart_voting_enabled)` bound to
\* `__init__(self, rules, blacklist, smart_voting_enabled=True, requests_paused=False)`:
\* positional arguments fill the parameters from the left, the rest take defaults
QueueManagerCall(config) ==
    LET parameters == <<"rules", "blacklist", "smart_voting_enabled", "requests_paused">>
        defaults   == [smart_voting_enabled |-> Py("bool", TRUE),
                       requests_paused |-> Py("bool", FALSE)]
        arguments  == << Py("RulesConfig", config.rules),
                         Py("bool", config.smart_voting_enabled) >>
    IN  [ name \in {"rules", "blacklist", "smart_voting_enabled", "requests_paused"} |->
            LET k == CHOOSE i \in 1..Len(parameters) : parameters[i] = name
            IN  IF k <= Len(arguments) THEN arguments[k] ELSE defaults[name] ]

\* QueueManager.__init__ evaluates `len(blacklist.songs)` for its log line:
\* AttributeError unless `blacklist` is a BlacklistConfig
queue_manager_init_raises(bound) == bound.blacklist.type # "BlacklistConfig"

\* a configuration has been loaded and no orchestrator is constructed yet; the
\* variables of the manager hold the values of an empty manager
ConstructInit ==
    /\ queue = <<>>
    /\ history = <<>>
    /\ user_cooldowns = <<>>
    /\ smart_voting_enabled = TRUE
    /\ requests_paused = FALSE
    /\ blacklist = [songs |-> <<>>, artists |-> <<>>]
    /\ rules \in RulesConfigs
    /\ locked = FALSE
    /\ now = 0
    /\ last = NoCall
    /\ BotOrchestratorInit
    /\ NoPlayer
    /\ fallback_playlist_id \in { <<>>, <<"playlist">> }
    /\ command_permissions \in PermissionConfigs
    /\ callbacks = {}
    /\ chat = ChatIdle
    /\ answered = <<>>

\* BotOrchestrator.__init__(config): the manager is constructed; when its
\* __init__ raises, the exception leaves BotOrchestrator.__init__ and there is
\* no orchestrator and no manager
orchestrator_init(config) ==
    LET bound == QueueManagerCall(config)
    IN  /\ obs = NoStep
        /\ config.rules = rules
        /\ obs' = Obs("__init__", [config |-> config, bound |-> bound], {},
                      queue_manager_init_raises(bound), FALSE)
        /\ IF queue_manager_init_raises(bound)
           THEN UNCHANGED <<smart_voting_enabled, requests_paused, blacklist>>
           ELSE /\ smart_voting_enabled' = bound.smart_voting_enabled.value
                /\ requests_paused' = bound.requests_paused.value
                /\ blacklist' = bound.blacklist.value
        /\ last' = NoCall
        /\ UNCHANGED <<queue, history, user_cooldowns, rules, now, locked>>
        /\ UNCHANGED <<running, loop_pc, stop_pc, current_track, autopilot_error_count,
                       fallback_playlist_id, sleep_until, track_ends, loop_item, main_loop,
                       inflight, cvars>>

ConstructNext == \E config \in BotConfigs : orchestrator_init(config)

SpecConstruct == ConstructInit /\ [][ConstructNext]_vars

----------------------------------------------------------------------------
(* C1 *)

\* C1: whatever operations are interleaved, the queue never holds two entries
\* with the same URI.
C1_Uniqueness ==
    \A i, j \in 1..Len(queue) :
        i # j => queue[i].song.uri # queue[j].song.uri

\* a URI that is in the queue has just been requested again
C1_Witness ==
    /\ last.op = "add_request"
    /\ last.result \in {"VOTED", "DUPLICATE"}
    /\ Len(queue) = 2

----------------------------------------------------------------------------
(* C2 *)

\* C2: in every state (so after every queue mutation) all pinned entries precede
\* all unpinned entries and, when smart voting is on, the unpinned entries are
\* non-increasing in votes.
C2_OrderInvariant ==
    /\ \A i, j \in 1..Len(queue) :
          (queue[i].is_manual /\ ~queue[j].is_manual) => i < j
    /\ smart_voting_enabled =>
          \A i, j \in 1..Len(queue) :
              (~queue[i].is_manual /\ ~queue[j].is_manual /\ i < j)
                  => queue[i].votes >= queue[j].votes

----------------------------------------------------------------------------
(* C3 *)

\* C3 as stated: the queue never exceeds max_queue_size, and every add_request made
\* while the queue length equals the maximum returns QUEUE_FULL.
C3_Original ==
    /\ [](Len(queue) <= rules.max_queue_size)
    /\ [][IsRequest => \A song \in Songs, username \in Users :
            (Requested(song, username) /\ Len(queue) = rules.max_queue_size)
                => last'.result = "QUEUE_FULL"]_vars

\* C3 amended: the queue never exceeds max_queue_size, and an add_request made while
\* the queue length equals the maximum returns QUEUE_FULL unless one of the checks
\* made before the size check (paused, user cooldown, blacklist) rejects it first;
\* in no case does it add an entry.
C3_Capacity ==
    /\ [](Len(queue) <= rules.max_queue_size)
    /\ [][IsRequest => \A song \in Songs, username \in Users :
            (Requested(song, username) /\ Len(queue) = rules.max_queue_size)
                => /\ Len(queue') = Len(queue)
                   /\ ~RejectedBeforeSize(song, username)
                          => last'.result = "QUEUE_FULL"
                   /\ RejectedBeforeSize(song, username)
                          => last'.result \in {"REQUESTS_PAUSED", "USER_COOLDOWN",
                                               "BLACKLISTED"}]_vars

\* a request has just been turned away from a queue that holds max_queue_size entries
C3_Witness ==
    /\ last.op = "add_request"
    /\ last.result = "QUEUE_FULL"
    /\ Len(queue) = rules.max_queue_size
    /\ Len(queue) = 2

----------------------------------------------------------------------------
(* C4 *)

\* the user is already a requester of the pending entry for the song's URI
IsRevote(song, username) ==
    \E i \in PositionsOf(queue, song.uri) :
        \E k \in 1..Len(queue[i].requesters) : queue[i].requesters[k] = username

\* queue length, and votes and requesters of the song's entry, are what they were
EntryUntouched(song) ==
    /\ Len(queue') = Len(queue)
    /\ \A i \in PositionsOf(queue, song.uri) :
          \E j \in PositionsOf(queue', song.uri) :
              /\ queue'[j].votes = queue[i].votes
              /\ queue'[j].requesters = queue[i].requesters

\* C4 as stated: with smart voting on, every repeated request of a pending URI by one
\* of its requesters returns VOTED and leaves queue length, votes and requesters as
\* they were.
C4_Original ==
    [][IsRequest => \A song \in Songs, username \in Users :
          (Requested(song, username) /\ smart_voting_enabled /\ IsRevote(song, username))
              => /\ last'.result = "VOTED"
                 /\ EntryUntouched(song)]_vars

\* C4 amended: with smart voting on, a repeated request of a pending URI by one of its
\* requesters returns VOTED unless a check made before the queue lookup (paused, user
\* cooldown, blacklist, queue full, user limit, track too long) rejects it, in which
\* case it returns that check's outcome; in every case queue length, votes and
\* requesters are as they were.
C4_IdempotentRevote ==
    [][IsRequest => \A song \in Songs, username \in Users :
          (Requested(song, username) /\ smart_voting_enabled /\ IsRevote(song, username))
              => /\ ~RejectedBeforeLookup(song, username) => last'.result = "VOTED"
                 /\ RejectedBeforeLookup(song, username)
                        => last'.result \in {"REQUESTS_PAUSED", "USER_COOLDOWN", "BLACKLISTED",
                                             "QUEUE_FULL", "USER_LIMIT", "TOO_LONG"}
                 /\ EntryUntouched(song)]_vars

\* a requester has asked for their pending song again and was answered VOTED
\* without a vote being written
C4_Witness ==
    /\ last.op = "add_request"
    /\ last.result = "VOTED"
    /\ ~last.wrote
    /\ smart_voting_enabled
    /\ queue # <<>>

----------------------------------------------------------------------------
(* C5 *)

\* C5: a request that returns VOTED for a pending URI, made by a user who is not yet
\* one of its requesters, adds exactly one vote and exactly that user (at the end of
\* the requesters) to that entry, keeps the queue length, and leaves votes and
\* requesters of every other entry as they were.
C5_VoteAddsOne ==
    [][IsRequest => \A song \in Songs, username \in Users :
          (/\ Requested(song, username)
           /\ last'.result = "VOTED"
           /\ PositionsOf(queue, song.uri) # {}
           /\ ~IsRevote(song, username))
              => /\ Len(queue') = Len(queue)
                 /\ \A i \in 1..Len(queue) :
                       \E j \in 1..Len(queue') :
                           /\ queue'[j].song = queue[i].song
                           /\ queue'[j].votes =
                                 IF queue[i].song.uri = song.uri
                                 THEN queue[i].votes + 1 ELSE queue[i].votes
                           /\ queue'[j].requesters =
                                 IF queue[i].song.uri = song.uri
                                 THEN queue[i].requesters \o <<username>>
                                 ELSE queue[i].requesters]_vars

\* a second user has just voted for a pending entry while another entry is queued
C5_Witness ==
    /\ last.op = "add_request"
    /\ last.result = "VOTED"
    /\ last.wrote
    /\ Len(queue) = 2
    /\ \E i, j \in 1..Len(queue) :
          /\ queue[i].votes = 2
          /\ Len(queue[i].requesters) = 2
          /\ queue[i].requesters[1] # queue[i].requesters[2]
          /\ queue[j].votes = 1

----------------------------------------------------------------------------
(* C6 *)

\* the step is a pop_next that returned an entry
Popped == last'.op = "pop_next" /\ last'.result = "item" /\ queue # <<>>

\* the song was popped and its cooldown window is still running
InsideWindow(song) ==
    /\ song.uri \in DOMAIN history
    /\ now - history[song.uri] < rules.song_cooldown_minutes * 60

\* the song was popped and its cooldown window has run out
WindowElapsed(song) ==
    /\ song.uri \in DOMAIN history
    /\ now - history[song.uri] >= rules.song_cooldown_minutes * 60

\* pop_next stamps the popped URI with the current time
PopStampsNow ==
    [][Popped => (/\ queue[1].song.uri \in DOMAIN history'
                  /\ history'[queue[1].song.uri] = now)]_vars

\* C6 as stated: pop_next stamps the URI with the current time; every add_request
\* for a popped URI that is not in the queue, made inside the song-cooldown window,
\* returns ON_COOLDOWN and leaves the queue alone; one made after the window is not
\* answered ON_COOLDOWN.
C6_Original ==
    /\ PopStampsNow
    /\ [][IsRequest => \A song \in Songs, username \in Users :
            (Requested(song, username) /\ PositionsOf(queue, song.uri) = {})
                => /\ InsideWindow(song)
                       => (last'.result = "ON_COOLDOWN" /\ queue' = queue)
                   /\ WindowElapsed(song) => last'.result # "ON_COOLDOWN"]_vars

\* C6 amended: pop_next stamps the URI with the current time; an add_request for a
\* popped URI that is not in the queue, made inside the song-cooldown window, leaves
\* the queue alone and returns ON_COOLDOWN unless a check made earlier (paused, user
\* cooldown, blacklist, queue full, user limit, track too long) rejects it first; one
\* made after the window is not answered ON_COOLDOWN.
C6_SongCooldown ==
    /\ PopStampsNow
    /\ [][IsRequest => \A song \in Songs, username \in Users :
            (Requested(song, username) /\ PositionsOf(queue, song.uri) = {})
                => /\ InsideWindow(song)
                       => /\ queue' = queue
                          /\ ~RejectedBeforeLookup(song, username)
                                 => last'.result = "ON_COOLDOWN"
                          /\ RejectedBeforeLookup(song, username)
                                 => last'.result \in {"REQUESTS_PAUSED", "USER_COOLDOWN",
                                                      "BLACKLISTED", "QUEUE_FULL",
                                                      "USER_LIMIT", "TOO_LONG"}
                   /\ WindowElapsed(song) => last'.result # "ON_COOLDOWN"]_vars

\* a popped song has just been refused inside its window
C6_Witness ==
    /\ last.op = "add_request"
    /\ last.result = "ON_COOLDOWN"
    /\ \E uri \in DOMAIN history :
          /\ PositionsOf(queue, uri) = {}
          /\ now - history[uri] < rules.song_cooldown_minutes * 60

\* a popped song has been admitted again once its window had run out
C6_WitnessElapsed ==
    /\ last.op = "add_request"
    /\ last.result = "SUCCESS"
    /\ rules.song_cooldown_minutes > 0
    /\ Len(queue) = 1
    /\ queue[1].song.uri \in DOMAIN history
    /\ now - history[queue[1].song.uri] >= rules.song_cooldown_minutes * 60

----------------------------------------------------------------------------
(* C7 *)

\* the rejection conditions in the order of the claim, each with its outcome
OrderedChecks(song, username) ==
    << <<requests_paused, "REQUESTS_PAUSED">>,
       <<check_user_cooldown(username), "USER_COOLDOWN">>,
       <<check_blacklist(song), "BLACKLISTED">>,
       <<Len(queue) >= rules.max_queue_size, "QUEUE_FULL">>,
       <<Cardinality(EntriesOf(queue, username)) >= rules.max_user_requests, "USER_LIMIT">>,
       <<song.duration_ms > rules.max_song_length_minutes * 60000, "TOO_LONG">>,
       <<PositionsOf(queue, song.uri) # {},
         IF smart_voting_enabled THEN "VOTED" ELSE "DUPLICATE">>,
       <<InsideWindow(song), "ON_COOLDOWN">> >>

\* outcome of the first condition that holds, SUCCESS when none does
FirstInOrder(song, username) ==
    LET checks == OrderedChecks(song, username)
        holding == { k \in 1..Len(checks) : checks[k][1] }
    IN  IF holding = {} THEN "SUCCESS"
        ELSE checks[CHOOSE k \in holding : \A m \in holding : k <= m][2]

\* C7: add_request returns the outcome of the first check that fails, in the order
\* paused, user cooldown, blacklist, queue full, user limit, too long, URI already
\* queued, song cooldown; it returns SUCCESS only when none fails.
C7_CheckOrder ==
    [][IsRequest => \A song \in Songs, username \in Users :
          Requested(song, username)
              => last'.result = FirstInOrder(song, username)]_vars

\* the queue is full and every user is at the user limit: whoever asked, two
\* rejection conditions held at once and the earlier one was returned
C7_Witness ==
    /\ last.op = "add_request"
    /\ last.result = "QUEUE_FULL"
    /\ Len(queue) >= rules.max_queue_size
    /\ \A username \in Users :
          Cardinality(EntriesOf(queue, username)) >= rules.max_user_requests

----------------------------------------------------------------------------
(* C8 *)

\* no user is listed in more than max_user_requests entries
WithinUserLimit ==
    \A username \in Users :
        Cardinality(EntriesOf(queue, username)) <= rules.max_user_requests

\* C8 as stated: no user is ever listed in more than max_user_requests entries, and
\* every request by a user who is listed in that many returns USER_LIMIT.
C8_Original ==
    /\ []WithinUserLimit
    /\ [][IsRequest => \A song \in Songs, username \in Users :
            (/\ Requested(song, username)
             /\ Cardinality(EntriesOf(queue, username)) >= rules.max_user_requests)
                => last'.result = "USER_LIMIT"]_vars

\* C8 amended: no user is ever listed in more than max_user_requests entries, and a
\* request by a user who is listed in that many returns USER_LIMIT unless a check
\* made earlier (paused, user cooldown, blacklist, queue full) rejects it first; in
\* no case does it add the user to an entry.
C8_UserLimit ==
    /\ []WithinUserLimit
    /\ [][IsRequest => \A song \in Songs, username \in Users :
            (/\ Requested(song, username)
             /\ Cardinality(EntriesOf(queue, username)) >= rules.max_user_requests)
                => /\ queue' = queue
                   /\ (~RejectedBeforeSize(song, username)
                       /\ Len(queue) < rules.max_queue_size)
                          => last'.result = "USER_LIMIT"
                   /\ (RejectedBeforeSize(song, username)
                       \/ Len(queue) >= rules.max_queue_size)
                          => last'.result \in {"REQUESTS_PAUSED", "USER_COOLDOWN",
                                               "BLACKLISTED", "QUEUE_FULL"}]_vars

\* a request was refused with USER_LIMIT while every user was at the limit, one of
\* them counted as a voter only
C8_Witness ==
    /\ last.op = "add_request"
    /\ last.result = "USER_LIMIT"
    /\ \A username \in Users :
          Cardinality(EntriesOf(queue, username)) = rules.max_user_requests
    /\ \E i \in 1..Len(queue) : Len(queue[i].requesters) = 2

----------------------------------------------------------------------------
(* C9 *)

Rejections ==
    { "REQUESTS_PAUSED", "USER_COOLDOWN", "BLACKLISTED", "QUEUE_FULL", "USER_LIMIT",
      "TOO_LONG", "DUPLICATE", "ON_COOLDOWN" }

\* C9: an add_request that neither admits an entry nor adds a vote returns one of the
\* outcomes as a value and leaves the queue (contents and order), the song-cooldown
\* index and the user-cooldown index as they were.
C9_RejectionFrame ==
    [][IsRequest => \A song \in Songs, username \in Users :
          (/\ Requested(song, username)
           /\ \/ last'.result \in Rejections
              \/ last'.result = "VOTED" /\ IsRevote(song, username))
              => /\ queue' = queue
                 /\ history' = history
                 /\ user_cooldowns' = user_cooldowns]_vars

\* a duplicate has just been refused with smart voting off
C9_Witness ==
    /\ last.op = "add_request"
    /\ last.result = "DUPLICATE"
    /\ ~last.wrote
    /\ ~smart_voting_enabled
    /\ queue # <<>>

----------------------------------------------------------------------------
(* C10 *)

\* C10: pop_next on a non-empty queue returns the entry at index 0 and leaves the
\* others in their order; on an empty queue it returns None and changes neither the
\* queue nor the song-cooldown index.
C10_PopHead ==
    [][last'.op = "pop_next"
          => IF queue = <<>>
             THEN /\ last'.result = "None"
                  /\ last'.item = NoItem
                  /\ queue' = queue
                  /\ history' = history
             ELSE /\ last'.item = <<queue[1]>>
                  /\ queue' = Tail(queue)]_vars

\* the head has been popped and another entry is still queued
C10_Witness ==
    /\ last.op = "pop_next"
    /\ last.result = "item"
    /\ Len(last.item) = 1
    /\ Len(queue) >= 1
    /\ last.item[1].song.uri # queue[1].song.uri

----------------------------------------------------------------------------
(* C11 *)

\* C11: however handlers of chat requests for one URI (each suspended at the search
\* before it calls add_request) interleave with each other and with the ticks of
\* the playback loop, the queue never holds two entries for one URI, and the queue
\* changes only in a step that is one whole call of the queue manager.
C11_OneEntryPerUri ==
    /\ [](\A i, j \in 1..Len(queue) : queue[i].song.uri = queue[j].song.uri => i = j)
    /\ [][queue' # queue => last'.op # "-"]_vars

\* after the loop has popped an entry, a request is admitted while another handler
\* for the same URI, begun before that admission, is still suspended at its search
C11_Witness ==
    /\ last.op = "add_request"
    /\ last.result = "SUCCESS"
    /\ Len(queue) = 1
    /\ history # <<>>
    /\ \E request \in BagToSet(inflight) : request.query = queue[1].song.uri

----------------------------------------------------------------------------
(* C12 *)

\* a step of the loop in which a backend call of the tick failed: no playback
\* state, an exception while the state is read, start_playback or add_to_queue
\* raised, no fallback track, start_playback of the fallback track raised
LoopFailure ==
    /\ obs.failed
    /\ obs.op \in {"tick", "start_playback", "add_to_queue", "get_random_fallback_track"}

\* C12: while the orchestrator is running the loop is never terminated; a step in
\* which a backend call of the tick failed leaves the loop at a sleep or at the top
\* of its next iteration, whatever failed before; and a running loop always has a
\* next step.
C12_LoopSurvivesFailures ==
    /\ [](running => loop_pc # "done")
    /\ [][LoopFailure' /\ running'
            => loop_pc' \in {"sleep", "enqueue_sleep", "fallback_backoff", "error_sleep"}]_vars
    /\ [](running /\ loop_pc # "none" => ENABLED (LoopStep \/ FallbackStep))

\* the third start of a fallback track in a row has failed, and after the failures
\* of the ticks before it the loop is at its back-off sleep, still running
C12_Witness ==
    /\ running
    /\ LoopFailure
    /\ obs.op = "start_playback"
    /\ autopilot_error_count = FallbackThreshold
    /\ loop_pc = "fallback_backoff"

----------------------------------------------------------------------------
(* C13 *)

\* C13: when start_playback or add_to_queue has failed for the entry a tick
\* popped, the entry is not lost: the queue still holds it, so that a later tick
\* hands it to the backend again.
C13_FailedEntryKept ==
    (obs.failed /\ obs.op \in {"start_playback", "add_to_queue"} /\ obs.result = "-")
        => /\ current_track # <<>>
           /\ \E i \in 1..Len(queue) : queue[i].song.uri = current_track[1].song.uri

----------------------------------------------------------------------------
(* C14 *)

\* the tick that runs on the playback state `state` finds nothing playing
NothingPlaying(state) == state # <<>> /\ ~state[1].is_playing

\* C14: once the fallback error counter is at the threshold, a tick that finds the
\* queue empty and nothing playing issues no backend call: it does not wait for a
\* fallback track or for a start of playback, and the counter stays where it is.
C14_FallbackDisabled ==
    [][\A state \in PlaybackStates :
          (/\ playback_loop_tick(state)
           /\ NothingPlaying(state)
           /\ queue = <<>>
           /\ autopilot_error_count >= FallbackThreshold)
          => /\ obs'.calls = {}
             /\ loop_pc' \notin {"fallback_fetch", "fallback_start"}
             /\ autopilot_error_count' = autopilot_error_count]_vars

\* such a tick has happened: fallback was the decision, the counter is at the
\* threshold and nothing was called
C14_Witness ==
    /\ obs.op = "tick"
    /\ obs.result = "fallback"
    /\ obs.calls = {}
    /\ fallback_playlist_id # <<>>
    /\ autopilot_error_count = FallbackThreshold
    /\ loop_pc = "sleep"
    /\ running

----------------------------------------------------------------------------
(* C15 *)

----------------------------------------------------------------------------
(* C16 *)

\* the chat thread leaves the callback it was in
WrapperReturns == chat.pc \in {"callback", "waiting"} /\ chat'.pc = "idle"

\* the texts a wrapper builds
WrapperReplies(command) ==
    IF command = "sr"
    THEN { "chat.added_pos", "chat.added_simple", "chat.voted", "chat.queue_full",
           "chat.limit_reached", "chat.err_too_long", "chat.err_cooldown",
           "chat.err_not_found" }
    ELSE { "skip.done", "skip.done_track", "skip.error" }

\* C16: every call of _handle_song_request_sync and _handle_skip_sync ends with a
\* reply text for the command and never with an exception; when the main loop is
\* not set, the coroutine raised or the timeout (15 s for a request, 10 s for skip)
\* ran out, the reply is the error reply; and the chat thread is never blocked
\* beyond the timeout: a wrapper that is called can go on, one that waits can wait
\* only up to its timeout, and at the timeout it can return.
C16_WrapperAlwaysReplies ==
    /\ [][WrapperReturns
            => /\ Len(answered') = 1
               /\ answered'[1].command = chat.command
               /\ answered'[1].reply \in WrapperReplies(chat.command)
               /\ answered'[1].outcome \in {"NO_LOOP", "RAISED", "TIMEOUT"}
                     => answered'[1].reply = ErrorReply(chat.command)]_vars
    /\ [](chat.pc = "callback" => ENABLED handle_sync)
    /\ [](chat.pc = "waiting"
            => /\ chat.waited <= Timeout(chat.command)
               /\ chat.waited < Timeout(chat.command) => ENABLED future_wait
               /\ chat.waited = Timeout(chat.command) => ENABLED future_timeout)

\* the wrapper of a request has given up after its 15 s with the error reply,
\* and its coroutine is still scheduled on the main loop
C16_Witness ==
    /\ answered = Answer("sr", "TIMEOUT", "chat.err_not_found")
    /\ chat.pc = "idle"
    /\ main_loop
    /\ \E request \in BagToSet(inflight) : request.op = "sr" /\ ~request.awaited

----------------------------------------------------------------------------
(* C17 *)

\* the outcomes of a request that is not admitted
RejectionOutcomes ==
    { "QUEUE_FULL", "USER_LIMIT", "TOO_LONG", "ON_COOLDOWN", "USER_COOLDOWN",
      "BLACKLISTED", "DUPLICATE", "REQUESTS_PAUSED", "NOT_FOUND" }

\* C17: two requests that are rejected with different outcomes are answered with
\* different replies.
C17_DistinctReplies ==
    [][(/\ answered # <<>>
        /\ answered' # <<>>
        /\ answered[1].command = "sr"
        /\ answered'[1].command = "sr"
        /\ answered[1].outcome \in RejectionOutcomes
        /\ answered'[1].outcome \in RejectionOutcomes
        /\ answered[1].outcome # answered'[1].outcome)
          => answered[1].reply # answered'[1].reply]_vars

----------------------------------------------------------------------------
(* C18 *)

\* the badges satisfy the level: the broadcaster for "broadcaster", the
\* broadcaster or a moderator for "moderators"
HasBadgeFor(required_perm, badges) ==
    IF required_perm = "broadcaster"
    THEN "broadcaster" \in badges
    ELSE "broadcaster" \in badges \/ "moderator" \in badges

\* the command is privileged and configured for moderators or the broadcaster
Restricted(command) ==
    /\ command \in Privileged
    /\ command_permissions[command] \in {"moderators", "broadcaster"}

\* C18: the callback of a privileged command whose required permission is
\* MODERATORS or BROADCASTER is running only for a chatter whose badges satisfy
\* that level, and a message of a chatter without such a badge ends in
\* event_message without a call of the callback, whatever the follower lookup says.
C18_PrivilegedNeedsBadge ==
    /\ []((chat.pc = "callback" /\ Restricted(chat.command))
            => HasBadgeFor(command_permissions[chat.command], chat.badges))
    /\ [][\A command \in Privileged, badges \in SUBSET Badges, entry \in {"", "x"} :
            \A follows \in {"yes", "no", "error"} :
              (/\ event_message(command, badges, "alice", entry, follows)
               /\ Restricted(command)
               /\ ~HasBadgeFor(command_permissions[command], badges))
              => /\ chat'.pc = "idle"
                 /\ answered' = Answer(command, "denied", "raised")]_vars

\* after a !clearqueue that was refused, the !clearqueue of a moderator has
\* reached its callback, where the command is for moderators
C18_Witness ==
    /\ chat.pc = "callback"
    /\ chat.command = "clearqueue"
    /\ chat.badges = {"moderator", "subscriber"}
    /\ command_permissions["clearqueue"] = "moderators"
    /\ answered = Answer("clearqueue", "denied", "raised")

----------------------------------------------------------------------------
(* C19 *)

\* the step admitted a request or a vote, popped an entry, reordered the queue
\* (a move, a pin, an unpin or the smart-voting switch that took effect), or
\* paused or resumed the requests
QueueChanged ==
    \/ last'.op = "add_request" /\ last'.result \in {"SUCCESS", "VOTED"}
    \/ last'.op = "pop_next" /\ last'.result = "item"
    \/ /\ obs'.op \in {"move_item", "pin_item", "unpin_item", "toggle_smart_voting"}
       /\ queue' # queue \/ smart_voting_enabled' # smart_voting_enabled
    \/ obs'.op = "set_requests_paused" /\ requests_paused' # requests_paused

\* C19: every step that admits a request or a vote, pops, reorders (move, pin,
\* unpin, smart-voting switch) or pauses or resumes the requests on the queue of
\* the running orchestrator invokes on_update.
C19_EveryChangeNotified ==
    [][(running /\ QueueChanged) => obs'.notified]_vars

----------------------------------------------------------------------------
(* C20 *)

\* the step popped the head of the queue and made it the current track
PoppedHead ==
    /\ last'.op = "pop_next"
    /\ last'.item = <<queue[1]>>
    /\ queue' = Tail(queue)
    /\ current_track' = <<queue[1]>>

\* the step left the queue alone
NoPop == last'.op # "pop_next" /\ queue' = queue /\ current_track' = current_track

\* what a tick on the playback state `st` has to do
TickDecision(st) ==
    LET empty == queue = <<>>
        known == st.current_track # <<>> /\ st.progress_ms # <<>>
        remaining_ms == st.current_track[1] - st.progress_ms[1]
    IN  /\ (empty /\ ~st.is_playing) => (obs'.result = "fallback" /\ NoPop)
        /\ (empty /\ st.is_playing) => (obs'.result = "none" /\ obs'.calls = {} /\ NoPop)
        /\ (~empty /\ ~st.is_playing)
              => (obs'.result = "force_start" /\ obs'.calls = {"start_playback"} /\ PoppedHead)
        /\ (~empty /\ st.is_playing /\ known /\ remaining_ms < 10000)
              => (obs'.result = "soft_enqueue" /\ obs'.calls = {"add_to_queue"} /\ PoppedHead)
        /\ (~empty /\ st.is_playing /\ known /\ remaining_ms >= 10000)
              => (obs'.result = "none" /\ obs'.calls = {} /\ NoPop)
        /\ st.is_playing => "start_playback" \notin obs'.calls
        /\ obs'.result \in {"none", "raised"} => (obs'.calls = {} /\ NoPop)

\* C20: what a tick does is determined by whether the queue is empty, whether the
\* backend is playing and what is left of the current track: empty and nothing
\* playing, fallback; empty and playing, nothing; not empty and nothing playing, the
\* head is popped and force-started; not empty, playing and less than 10 s left, the
\* head is popped and soft-enqueued; not empty, playing and 10 s or more left,
\* nothing.  A tick never force-starts while the backend is playing and never pops
\* when it does nothing.
C20_TickDecision ==
    [][\A state \in PlaybackStates \ { <<>> } :
          playback_loop_tick(state) => TickDecision(state[1])]_vars

\* a tick has popped the head and soft-enqueued it behind the playing track
C20_Witness ==
    /\ obs.op = "tick"
    /\ obs.result = "soft_enqueue"
    /\ loop_pc = "enqueue"
    /\ last.op = "pop_next"
    /\ current_track = last.item
    /\ queue = <<>>

----------------------------------------------------------------------------
(* C21 *)

\* C21: a fallback attempt that fails, because no track was obtained or because
\* start_playback raised, adds one to the error counter and is followed by the
\* back-off sleep; a fallback whose start_playback returned sets the counter to 0.
C21_FallbackAttemptsCounted ==
    [][/\ (play_fallback_fetched(FALSE) \/ play_fallback_started(FALSE))
            => /\ autopilot_error_count' = autopilot_error_count + 1
               /\ loop_pc' = "fallback_backoff"
       /\ play_fallback_started(TRUE) => autopilot_error_count' = 0]_vars

----------------------------------------------------------------------------
(* C22 *)

\* how many unreferenced tasks of _playback_loop are suspended at one of `pcs`
OrphansAt(pcs) ==
    BagCardinality([task \in { t \in Orphans : t.pc \in pcs } |-> inflight[task]])

\* where a task of _playback_loop is suspended while it has not finished, and
\* where it is inside a tick, waiting for the backend
LoopActive ==
    { "sleep", "state", "start", "enqueue", "enqueue_sleep", "fallback_fetch",
      "fallback_start", "fallback_sleep", "fallback_backoff", "error_sleep" }

InTick == { "state", "start", "enqueue", "fallback_fetch", "fallback_start" }

\* the tasks of _playback_loop that have not finished: the referenced one and
\* those left behind
ActiveLoops == (IF loop_pc \in LoopActive THEN 1 ELSE 0) + OrphansAt(LoopActive)

\* the tasks of _playback_loop that are inside a tick
TicksInFlight == (IF loop_pc \in InTick THEN 1 ELSE 0) + OrphansAt(InTick)

\* C22: whatever the order of the start() and stop() calls, at most one playback
\* loop is active, and at most one tick is in flight.
C22_OneLoop ==
    /\ ActiveLoops <= 1
    /\ TicksInFlight <= 1

----------------------------------------------------------------------------
(* C23 *)

\* the play-history entry of a queue entry: its track and its first requester
EntryOf(item) == HistoryEntry(item.song, item.requesters[1], FALSE)

\* C23: when start_playback or add_to_queue has returned for the entry a tick
\* popped, or start_playback for the entry force_play_next popped, the step
\* appends the history entry of that entry.
C23_HandedEntryRecorded ==
    [][/\ play_next_song_done(TRUE) => obs'.recorded = <<EntryOf(loop_item[1])>>
       /\ (force_play_next(TRUE) /\ queue # <<>>) => obs'.recorded = <<EntryOf(queue[1])>>]_vars

----------------------------------------------------------------------------
(* C24 *)

\* the step is the return of a start_playback call
StartReturned ==
    \/ \E ok \in BOOLEAN : loop_pc = "start" /\ play_next_song_done(ok)
    \/ \E ok \in BOOLEAN : play_fallback_started(ok)
    \/ \E ok \in BOOLEAN : queue # <<>> /\ force_play_next(ok)

\* the step is the successful return of start_playback for the track of `uri`
StartSucceeded(uri) ==
    \/ loop_pc = "start" /\ play_next_song_done(TRUE) /\ uri = loop_item[1].song.uri
    \/ play_fallback_started(TRUE) /\ uri = AutopilotItem.song.uri
    \/ queue # <<>> /\ force_play_next(TRUE) /\ uri = queue[1].song.uri

----------------------------------------------------------------------------
(* C25 *)

\* an entry for the track of `uri` is queued
Queued(uri) == \E i \in 1..Len(queue) : queue[i].song.uri = uri

\* the loop has popped the entry for `uri` and has called the backend for it
Handed(uri) ==
    /\ loop_pc \in {"start", "enqueue"}
    /\ loop_item # <<>>
    /\ loop_item[1].song.uri = uri

\* C25 as stated: while the orchestrator runs and the backend keeps reporting
\* that nothing is playing or that the playing track is in its last 10 seconds,
\* every queued entry is eventually popped and handed to the backend.
C25_EveryEntryServed ==
    \A uri \in LiveQueries : (running /\ Queued(uri)) ~> Handed(uri)

\* C25: under the same conditions a non-empty queue is eventually popped, the
\* popped entry being handed to the backend; and every queued entry is eventually popped
\* and handed to the backend when smart voting is disabled, so that no later
\* entry is sorted ahead of it.
C25_QueueServed ==
    /\ (running /\ queue # <<>> /\ loop_pc \in {"sleep", "state"})
          ~> (\E uri \in LiveQueries : Handed(uri))
    /\ \A uri \in LiveQueries :
          (running /\ ~smart_voting_enabled /\ Queued(uri)) ~> Handed(uri)

\* with smart voting disabled the entry queued second has been handed to the
\* backend while a later request is queued
C25_Witness ==
    /\ running
    /\ ~smart_voting_enabled
    /\ Handed("u2")
    /\ queue # <<>>
    /\ history # <<>>

----------------------------------------------------------------------------
(* C26 *)

\* the times at which entries were popped (QueueManager._history)
PopTimes == { history[uri] : uri \in DOMAIN history }

\* the step is a tick that pops an entry and hands it to the backend's queue
SoftEnqueueTick == timed_tick /\ obs'.result = "soft_enqueue"

\* C26: a tick soft-enqueues an entry only if no entry was popped before inside
\* the last 10 seconds of the track that is playing; and the loop evaluates the
\* playback state no earlier than 8 + 4 seconds after a soft enqueue.
C26_OneEnqueuePerTrack ==
    [][/\ SoftEnqueueTick => \A t \in PopTimes : t * 1000 <= track_ends * 1000 - EndingSoonMs
       /\ timed_tick => \A t \in PopTimes : now >= t + EnqueuePause + TickInterval]_vars

\* the first tick after a soft enqueue has run, 12 seconds after the pop, while
\* the next track is playing
C26_Witness ==
    /\ obs.op = "tick"
    /\ PopTimes # {}
    /\ \A t \in PopTimes : now = t + EnqueuePause + TickInterval
    /\ track_ends > TrackSeconds

----------------------------------------------------------------------------
(* C27 *)

\* the step is a call after which the manager sorts the queue again
Resorted ==
    \/ \E song \in Songs, username \in Users : add_request(song, username)
    \/ \E enabled \in BOOLEAN : toggle_smart_voting(enabled)

\* C27: a valid move_item(from, to) leaves the moved entry pinned at index `to`,
\* and a later re-sort (after an admission, a vote or the smart-voting switch)
\* leaves every pinned entry at the index it has.
C27_MovedEntryStays ==
    [][/\ \A indices \in MoveIndices :
             (/\ move_item(indices[1], indices[2])
              /\ indices[1] \in 0..(Len(queue) - 1)
              /\ indices[2] \in 0..(Len(queue) - 1))
             => queue'[indices[2] + 1] = [queue[indices[1] + 1] EXCEPT !.is_manual = TRUE]
       /\ Resorted => \A i \in 1..Len(queue) :
             queue[i].is_manual
                 => /\ i <= Len(queue')
                    /\ queue'[i].song.uri = queue[i].song.uri
                    /\ queue'[i].is_manual]_vars

----------------------------------------------------------------------------
(* C28 *)

\* the manual controls that take an index
IndexCalls == { "move_item", "pin_item", "unpin_item", "remove_item" }

\* the step is one of these calls with an index outside 0..len-1
InvalidCall ==
    /\ obs'.op \in IndexCalls
    /\ \E k \in 1..Len(obs'.result.args) : ~in_range(obs'.result.args[k])

\* C28: move_item, pin_item, unpin_item and remove_item called with an index
\* outside 0..len-1 return False and change neither the queue (entries, order,
\* pin flags) nor the song-cooldown and user-cooldown indices.
C28_InvalidIndexRejected ==
    [][InvalidCall => /\ obs'.result.value = "False"
                      /\ UNCHANGED <<queue, history, user_cooldowns>>]_vars

\* move_item(0, 2) was rejected on a queue of two entries, one of them pinned,
\* after a pop that filled the song-cooldown index
C28_Witness ==
    /\ obs.op = "move_item"
    /\ obs.result.args = <<0, 2>>
    /\ obs.result.value = "False"
    /\ Len(queue) = 2
    /\ queue[2].is_manual
    /\ DOMAIN history # {}
    /\ DOMAIN user_cooldowns # {}

----------------------------------------------------------------------------
(* C29 *)

\* the place of the track of `uri` in the order of admission
AdmissionRank(uri) == CHOOSE k \in 1..Len(Admitted) : Admitted[k] = uri

\* C29: while smart voting is disabled the unpinned entries are queued in the
\* order of their admission.
C29_InsertionOrder ==
    ~smart_voting_enabled
        => \A i, j \in 1..Len(queue) :
              (i < j /\ ~queue[i].is_manual /\ ~queue[j].is_manual)
                  => AdmissionRank(queue[i].song.uri) < AdmissionRank(queue[j].song.uri)

----------------------------------------------------------------------------
(* C30 *)

\* the entries of `q` with their votes, requesters and pin flags, order aside
Entries(q) == {q[i] : i \in 1..Len(q)}

\* the unpinned entries of `q` are in non-increasing order of votes
VoteOrdered(q) ==
    \A i, j \in 1..Len(q) :
        (i < j /\ ~q[i].is_manual /\ ~q[j].is_manual) => q[i].votes >= q[j].votes

\* C30: toggle_smart_voting(enabled) keeps the entries of the queue with their
\* vote counts, requester lists and pin flags, whatever toggles came before, and
\* after enabling the unpinned entries are in non-increasing order of votes.
C30_ToggleKeepsVotes ==
    [][obs'.op = "toggle_smart_voting"
          => /\ Len(queue') = Len(queue)
             /\ Entries(queue') = Entries(queue)
             /\ obs'.result.args[1] => smart_voting_enabled' /\ VoteOrdered(queue')]_vars

\* smart voting was enabled on a queue whose first-admitted entry has fewer votes
\* than the second: the entry with two votes is in front, both keep their votes
C30_Witness ==
    /\ obs.op = "toggle_smart_voting"
    /\ obs.result.args = <<TRUE>>
    /\ Len(queue) = 2
    /\ ~queue[1].is_manual /\ ~queue[2].is_manual
    /\ queue[1].votes = 2 /\ queue[2].votes = 1
    /\ Len(queue[1].requesters) = 2
    /\ Admitted = <<queue[2].song.uri, queue[1].song.uri>>

----------------------------------------------------------------------------
(* C31 *)

\* the calls of the manager that end with a re-sort of the queue
Resorting == {"add_request", "unpin_item", "toggle_smart_voting"}

\* the 1-based place of the entry for the track of `uri` in `q`
PlaceOf(q, uri) == CHOOSE i \in 1..Len(q) : q[i].song.uri = uri

\* the entries at places i and j of the queue before the step, the first in front
\* of the second, are both queued after it
KeptBehind(i, j) ==
    /\ StillQueued(queue[i].song.uri) /\ StillQueued(queue[j].song.uri)
    /\ i < j

\* C31: a re-sort is stable: two pinned entries keep their relative order, and
\* so do two unpinned entries that have the same number of votes when the queue
\* is sorted.
C31_StableSort ==
    [][obs'.op \in Resorting
          => \A i, j \in 1..Len(queue) :
                LET a == PlaceOf(queue', queue[i].song.uri)
                    b == PlaceOf(queue', queue[j].song.uri)
                IN  KeptBehind(i, j)
                      => /\ (queue'[a].is_manual /\ queue'[b].is_manual) => a < b
                         /\ (/\ ~queue'[a].is_manual /\ ~queue'[b].is_manual
                             /\ queue'[a].votes = queue'[b].votes) => a < b]_vars

\* smart voting is on and a vote has just given the second entry as many votes
\* as the first: the two entries are in the order they had, which is the order
\* of their admission
C31_Witness ==
    /\ smart_voting_enabled
    /\ obs.op = "add_request"
    /\ obs.result.value = "VOTED"
    /\ Len(queue) = 2
    /\ ~queue[1].is_manual /\ ~queue[2].is_manual
    /\ queue[1].votes = 2 /\ queue[2].votes = 2
    /\ queue[2].song.uri = obs.result.args[1]
    /\ Admitted = <<queue[1].song.uri, queue[2].song.uri>>

----------------------------------------------------------------------------
(* C32 *)

\* no username occurs twice in `requesters`
NoDuplicates(requesters) ==
    \A i, j \in 1..Len(requesters) : requesters[i] = requesters[j] => i = j

\* `before` is the beginning of `after`
IsPrefix(before, after) ==
    /\ Len(before) <= Len(after)
    /\ SubSeq(after, 1, Len(before)) = before

\* the requester list of `item` continues the list its entry had before the
\* step, or starts with the user whose request created the entry
InArrivalOrder(item) ==
    IF \E i \in 1..Len(queue) : queue[i].song.uri = item.song.uri
    THEN IsPrefix(queue[PlaceOf(queue, item.song.uri)].requesters, item.requesters)
    ELSE /\ obs'.op = "add_request"
         /\ item.requesters = <<obs'.result.args[2]>>

\* C32: every queued entry has at least one vote, as many votes as requesters,
\* and a requester list without duplicates to which users are only ever added
\* at the end, after every step.
C32_VotesAreRequesters ==
    [][\A i \in 1..Len(queue') :
          /\ queue'[i].votes >= 1
          /\ queue'[i].votes = Len(queue'[i].requesters)
          /\ NoDuplicates(queue'[i].requesters)
          /\ InArrivalOrder(queue'[i])]_vars

\* an entry that bob requested and alice voted for is queued behind a pinned one
C32_Witness ==
    /\ Len(queue) = 2
    /\ queue[1].is_manual
    /\ queue[2].votes = 2
    /\ queue[2].requesters = <<"bob", "alice">>
    /\ obs.op = "add_request"
    /\ obs.result.value = "VOTED"

----------------------------------------------------------------------------
(* C33 *)

\* the user has a request-cooldown timestamp and the configured window since it
\* has not elapsed
InUserWindow(username) ==
    /\ rules.user_request_cooldown_minutes > 0
    /\ username \in DOMAIN user_cooldowns
    /\ now - user_cooldowns[username] < rules.user_request_cooldown_minutes * 60

\* C33: a request that returns SUCCESS or adds a vote stamps its user's
\* request-cooldown timestamp with the current time and no other step changes any
\* timestamp; a request by a user inside the window returns USER_COOLDOWN unless
\* requests are paused; with user_request_cooldown_minutes = 0 no request returns
\* USER_COOLDOWN.
C33_UserCooldown ==
    [][/\ (last'.op = "add_request" /\ last'.wrote)
            => \A song \in Songs, username \in Users :
                  add_request(song, username)
                      => user_cooldowns' = DictSet(user_cooldowns, username, now)
       /\ ~(last'.op = "add_request" /\ last'.wrote) => user_cooldowns' = user_cooldowns
       /\ (last'.op = "add_request" /\ ~requests_paused)
            => \A song \in Songs, username \in Users :
                  (add_request(song, username) /\ InUserWindow(username))
                      => last'.result = "USER_COOLDOWN"
       /\ (last'.op = "add_request" /\ rules.user_request_cooldown_minutes = 0)
            => last'.result # "USER_COOLDOWN"]_vars

\* alice is refused inside her window after a vote stamped it, with an entry of
\* two votes queued
C33_Witness ==
    /\ last.op = "add_request"
    /\ last.result = "USER_COOLDOWN"
    /\ rules.user_request_cooldown_minutes > 0
    /\ \E i \in 1..Len(queue) : queue[i].votes = 2
    /\ "alice" \in DOMAIN user_cooldowns /\ "bob" \in DOMAIN user_cooldowns

----------------------------------------------------------------------------
(* C34 *)

\* where the playback loop is suspended in a call of the backend
BackendAwaits == {"state", "start", "enqueue", "fallback_fetch", "fallback_start"}

\* a backend call of the loop or the search of a request handler is suspended
BackendSuspended == loop_pc \in BackendAwaits \/ inflight # EmptyBag

----------------------------------------------------------------------------
(* C35 *)

\* the tick that runs on `state` is idle: nothing is queued and nothing plays
IdleTick(state) == playback_loop_tick(state) /\ NothingPlaying(state) /\ queue = <<>>

\* C35: the counter is at the threshold, so the handler that raised it there has
\* reported that fallback is disabled; an idle tick does not report it again.
C35_ReportedOnce ==
    [][\A state \in PlaybackStates :
          (IdleTick(state) /\ autopilot_error_count >= FallbackThreshold)
              => play_fallback_logs.level # "warning"]_vars

----------------------------------------------------------------------------
(* C36 *)

\* the wrapper that scheduled the coroutine has answered with its timeout reply
TimedOut(request) == request.op = "sr" /\ ~request.awaited

\* C36: the coroutine of a song request whose caller was answered with the
\* timeout reply changes the queue no more when it finishes.
C36_TimedOutRequestDropped ==
    [][\A request \in BagToSet(inflight) :
          (/\ TimedOut(request)
           /\ \E song \in SearchResults(request.query) : song_request_result(request, song))
              => queue' = queue]_vars

----------------------------------------------------------------------------
(* C37 *)

\* C37: the fallback error counter is within 0..3 in every reachable state.
C37_CounterBounded == autopilot_error_count \in 0..FallbackThreshold

----------------------------------------------------------------------------
(* C38 *)

\* the backend calls that hand an entry over
HandOver == {"start_playback", "add_to_queue"}

\* C38: whether the loop or force_play_next pops, the step takes the first entry
\* out of the queue, so that no later pop finds it, and issues exactly one
\* backend call for it; force_play_next leaves alone the entry the loop holds
\* while its own backend call is suspended; and no backend call is issued for an
\* entry when the loop's call returns.
C38_PoppedOnceHandedOnce ==
    [][/\ Popped
          => /\ last'.item = <<queue[1]>>
             /\ queue' = Tail(queue)
             /\ \A i \in 1..Len(queue') : queue'[i].song.uri # queue[1].song.uri
             /\ Cardinality(obs'.calls) = 1 /\ obs'.calls \subseteq HandOver
             /\ obs'.op = "tick" => loop_item' = last'.item
             /\ obs'.op = "force_play_next" => UNCHANGED <<loop_item, loop_pc>>
       /\ (\E ok \in BOOLEAN : play_next_song_done(ok))
          => /\ obs'.calls = {}
             /\ queue' = queue]_vars

\* force_play_next has popped and started one entry while the loop is suspended
\* in start_playback for another one
C38_Witness ==
    /\ loop_pc = "start"
    /\ loop_item # NoItem
    /\ obs.op = "force_play_next"
    /\ obs.calls = {"start_playback"}
    /\ last.item # NoItem
    /\ last.item # loop_item

----------------------------------------------------------------------------
(* C39 *)

\* C39: when the backend call for the entry the loop popped has failed,
\* current_track is not that entry.
C39_CurrentTrackWasHanded ==
    [][(play_next_song_done(FALSE) /\ obs'.failed) => current_track' # loop_item]_vars

----------------------------------------------------------------------------
(* C40 *)

\* C40: the construction of an orchestrator from `config` succeeds and gives
\* its manager an empty queue, config.smart_voting_enabled as smart-voting flag,
\* config.blacklist as blacklist and config.requests_paused as requests-paused
\* flag.
C40_ManagerFromConfig ==
    [][obs'.op = "__init__"
          => LET config == obs'.result.config
                 bound  == obs'.result.bound
             IN  /\ ~obs'.failed
                 /\ queue' = <<>>
                 /\ bound.smart_voting_enabled.value = config.smart_voting_enabled
                 /\ bound.requests_paused.value = config.requests_paused
                 /\ bound.blacklist.type = "BlacklistConfig"
                 /\ bound.blacklist.value = config.blacklist]_vars

====
